---- MODULE Spec2Model ----
(* Verification model of the MyMolt security core: the Sovereign memory   *)
(* interceptor and its sensitivity scanner, the confirmation gate, the    *)
(* tool security wrapper and the SIGIL gatekeeper.                        *)
EXTENDS Integers, Sequences, FiniteSets, Bags, TLC

(***************************************************************************)
(* Text.  A string is the sequence of its characters.                      *)
(***************************************************************************)
Upper == {"A","B","C","D","E","F","G","H","I","J","K","L","M","N","O","P","Q","R","S","T","U","V","W","X","Y","Z"}
Lower == {"a","b","c","d","e","f","g","h","i","j","k","l","m","n","o","p","q","r","s","t","u","v","w","x","y","z"}
Digit == {"0","1","2","3","4","5","6","7","8","9"}

\* to_lowercase on ASCII letters, as the (?i) flag folds case
ToLower(c) ==
  CASE c = "A" -> "a"
    [] c = "B" -> "b"
    [] c = "C" -> "c"
    [] c = "D" -> "d"
    [] c = "E" -> "e"
    [] c = "F" -> "f"
    [] c = "G" -> "g"
    [] c = "H" -> "h"
    [] c = "I" -> "i"
    [] c = "J" -> "j"
    [] c = "K" -> "k"
    [] c = "L" -> "l"
    [] c = "M" -> "m"
    [] c = "N" -> "n"
    [] c = "O" -> "o"
    [] c = "P" -> "p"
    [] c = "Q" -> "q"
    [] c = "R" -> "r"
    [] c = "S" -> "s"
    [] c = "T" -> "t"
    [] c = "U" -> "u"
    [] c = "V" -> "v"
    [] c = "W" -> "w"
    [] c = "X" -> "x"
    [] c = "Y" -> "y"
    [] c = "Z" -> "z"
    [] OTHER -> c

\* \s of the regex crate on ASCII input
Whitespace == {" ", "\t", "\n", "\r"}
\* \w of the regex crate on ASCII input, which decides \b
WordChar == Upper \cup Lower \cup Digit \cup {"_"}

\* the literal lit occurs in s starting at index i
HasAt(s, i, lit) ==
  /\ i >= 1
  /\ i + Len(lit) - 1 <= Len(s)
  /\ \A k \in 1..Len(lit) : s[i + k - 1] = lit[k]

\* the literal occurs at i, ignoring ASCII case
HasAtCI(s, i, lit) ==
  /\ i >= 1
  /\ i + Len(lit) - 1 <= Len(s)
  /\ \A k \in 1..Len(lit) : ToLower(s[i + k - 1]) = lit[k]

Contains(s, lit) == \E i \in 1..Len(s) : HasAt(s, i, lit)

\* number of consecutive characters of class C starting at index i
RECURSIVE RunLen(_, _, _)
RunLen(s, i, C) ==
  IF i >= 1 /\ i <= Len(s) /\ s[i] \in C THEN 1 + RunLen(s, i + 1, C) ELSE 0

(***************************************************************************)
(* SensitivityScanner (src/src/memory/sovereign.rs)                        *)
(***************************************************************************)
\* fixed prefixes of the Aho-Corasick pre-filter
prefix_filter == {<<"s","k","-">>, <<"A","I","z","a">>, <<"A","K","I","A">>, <<"-","-","-","-","-","B","E","G","I","N">>}

\* pattern names, in declaration order
PatternNames ==
  << <<"O","p","e","n","A","I"," ","K","e","y">>,
     <<"G","o","o","g","l","e"," ","A","P","I"," ","K","e","y">>,
     <<"A","W","S"," ","A","c","c","e","s","s"," ","K","e","y">>,
     <<"P","r","i","v","a","t","e"," ","K","e","y"," ","B","l","o","c","k">>,
     <<"I","B","A","N">>,
     <<"C","r","e","d","i","t"," ","C","a","r","d">>,
     <<"B","a","n","k"," ","P","I","N">> >>
prefix_guarded_count == 4

\* literals of the regexes
L_BEGIN_SP == <<"-","-","-","-","-","B","E","G","I","N"," ">>

\* sk-[a-zA-Z0-9-]{20,}
ReOpenAI(s) ==
  \E i \in 1..Len(s) :
    HasAt(s, i, <<"s","k","-">>) /\ RunLen(s, i + 3, Upper \cup Lower \cup Digit \cup {"-"}) >= 20

\* AIza[0-9A-Za-z-_]{35}
ReGoogle(s) ==
  \E i \in 1..Len(s) :
    HasAt(s, i, <<"A","I","z","a">>) /\ RunLen(s, i + 4, Upper \cup Lower \cup Digit \cup {"-", "_"}) >= 35

\* AKIA[0-9A-Z]{16}
ReAWS(s) ==
  \E i \in 1..Len(s) :
    HasAt(s, i, <<"A","K","I","A">>) /\ RunLen(s, i + 4, Upper \cup Digit) >= 16

\* -----BEGIN [A-Z]+ PRIVATE KEY-----
RePrivKey(s) ==
  \E i \in 1..Len(s) :
    /\ HasAt(s, i, L_BEGIN_SP)
    /\ LET n == RunLen(s, i + Len(L_BEGIN_SP), Upper)
       IN  n >= 1 /\ HasAt(s, i + Len(L_BEGIN_SP) + n, <<" ","P","R","I","V","A","T","E"," ","K","E","Y","-","-","-","-","-">>)

\* one group (?:[ ]?[0-9]{4}) read at index j: the index after it, or 0
IbanGroup(s, j) ==
  LET k == IF j <= Len(s) /\ s[j] = " " THEN j + 1 ELSE j
  IN  IF RunLen(s, k, Digit) >= 4 THEN k + 4 ELSE 0

\* n groups read from index j
RECURSIVE IbanGroups(_, _, _)
IbanGroups(s, j, n) ==
  IF n = 0 THEN TRUE
  ELSE LET k == IbanGroup(s, j) IN k # 0 /\ IbanGroups(s, k, n - 1)

\* [A-Z]{2}[0-9]{2}(?:[ ]?[0-9]{4}){4,}(?:[ ]?[0-9]{1,2})?
ReIBAN(s) ==
  \E i \in 1..Len(s) :
    /\ RunLen(s, i, Upper) >= 2
    /\ i + 3 <= Len(s)
    /\ s[i + 2] \in Digit /\ s[i + 3] \in Digit
    /\ IbanGroups(s, i + 4, 4)

\* \b between index j-1 and index j
WordBoundary(s, j) ==
  LET before == j - 1 >= 1 /\ j - 1 <= Len(s) /\ s[j - 1] \in WordChar
      after  == j >= 1 /\ j <= Len(s) /\ s[j] \in WordChar
  IN  before # after

\* (?:\d[ -]*?){n..16}\b continued at index j after n digits
RECURSIVE CardRest(_, _, _)
CardRest(s, j, n) ==
  \/ n >= 13 /\ n <= 16 /\ WordBoundary(s, j)
  \/ j <= Len(s) /\ n >= 1 /\ s[j] \in {" ", "-"} /\ CardRest(s, j + 1, n)
  \/ j <= Len(s) /\ n < 16 /\ s[j] \in Digit /\ CardRest(s, j + 1, n + 1)

\* \b(?:\d[ -]*?){13,16}\b
ReCreditCard(s) ==
  \E i \in 1..Len(s) :
    s[i] \in Digit /\ WordBoundary(s, i) /\ CardRest(s, i + 1, 1)

\* index after \s* read from index j
SkipWs(s, j) == j + RunLen(s, j, Whitespace)

\* \s*(\d{3,8}) read from index j
PinDigits(s, j) == RunLen(s, SkipWs(s, j), Digit) >= 3

\* (?i)(pin|conf|cvv|code)\s*(?:is|:|=|-)?\s*(\d{3,8})
ReBankPIN(s) ==
  \E i \in 1..Len(s) : \E kw \in {<<"p","i","n">>, <<"c","o","n","f">>, <<"c","v","v">>, <<"c","o","d","e">>} :
    /\ HasAtCI(s, i, kw)
    /\ LET j == SkipWs(s, i + Len(kw))
       IN  \/ PinDigits(s, j)
           \/ \E sep \in {<<"i","s">>, <<":">>, <<"=">>, <<"-">>} : HasAtCI(s, j, sep) /\ PinDigits(s, j + Len(sep))

\* re.is_match(text) of the i-th pattern
PatternMatches(i, s) ==
  CASE i = 1 -> ReOpenAI(s)
    [] i = 2 -> ReGoogle(s)
    [] i = 3 -> ReAWS(s)
    [] i = 4 -> RePrivKey(s)
    [] i = 5 -> ReIBAN(s)
    [] i = 6 -> ReCreditCard(s)
    [] i = 7 -> ReBankPIN(s)

\* Option<T>
None == <<>>
Some(x) == <<x>>
IsSome(o) == o # None
Unwrap(o) == o[1]

\* phase 1: the pre-filter
has_prefix(s) == \E p \in prefix_filter : Contains(s, p)

\* the loop of scan from the i-th pattern on: guarded patterns are skipped
\* when no prefix was found, the first pattern that matches is returned
RECURSIVE ScanFrom(_, _, _)
ScanFrom(s, i, prefixed) ==
  IF i > Len(PatternNames) THEN None
  ELSE IF i <= prefix_guarded_count /\ ~prefixed THEN ScanFrom(s, i + 1, prefixed)
  ELSE IF PatternMatches(i, s) THEN Some(PatternNames[i])
  ELSE ScanFrom(s, i + 1, prefixed)

\* SensitivityScanner::scan
scan(s) == ScanFrom(s, 1, has_prefix(s))

(***************************************************************************)
(* Texts the memory operations are exercised with                          *)
(***************************************************************************)
T_Pin == <<"M","y"," ","P","I","N"," ","i","s"," ","1","2","3","4">>

\* format! literals of SovereignMemory::store and VaultManager::encrypt_to_vault
L_VaultOpen == <<"[","V","A","U","L","T",":"," ">>
L_VaultClose == <<" ","-"," ","A","c","c","e","s","s"," ","R","e","q","u","i","r","e","d","]">>
L_vault == <<"v","a","u","l","t">>

(***************************************************************************)
(* Bounds                                                                  *)
(***************************************************************************)
\* store calls made through the Sovereign wrapper in one run
MaxStores == 2

(***************************************************************************)
(* State                                                                   *)
(***************************************************************************)
VARIABLES
  inner,        \* the inner backend: key -> [content, category]
  vault_dir,    \* data/vault: id -> plaintext sealed in <id>.vault
  meta_dir,     \* data/meta: id -> description of <id>.json
  audit,        \* audit.log: the sequence of events appended
  uuids,        \* number of uuids drawn by encrypt_to_vault
  stores,       \* number of store calls made
  last          \* the last store call: its arguments, result and writes

memVars == <<inner, vault_dir, meta_dir, uuids, stores, last>>

VARIABLES
  policy,       \* the SecurityPolicy shared by wrapper and gatekeeper
  confirm_gate, \* SecurityWrapper.confirm_gate: TRUE when a gate is attached
  wrap,         \* per tool invocation through the wrapper: tool, pc, steps, verdict
  req,          \* per invocation: the ConfirmationGate::request call it makes
  pending,      \* ConfirmationGate.pending: id -> request
  notified,     \* requests published on notify_tx, in order
  inbox,        \* per subscriber of notify_tx: the requests it has received
  req_ids,      \* number of uuids drawn by request
  resolves,     \* number of resolve_confirmation calls made
  granted,      \* per id: number of resolve calls that returned true
  answer        \* the response of the last resolve_confirmation call

gateVars == <<policy, confirm_gate, wrap, req, pending, notified, inbox, req_ids, resolves, granted, answer>>

VARIABLES
  window,       \* SecurityPolicy's action tracker: the times of the actions recorded
  clock,        \* the time, in ticks
  gk_logger,    \* SigilGatekeeper.audit: "none" or "attached"
  gk_calls,     \* the gate_request calls made: tool, time, outcome
  emitted       \* the events gate_request has handed to log_event

gkVars == <<window, clock, gk_logger, gk_calls, emitted>>

VARIABLES
  mcp_calls,    \* the McpTool::execute calls made: tool, gate call, result
  server_calls  \* the call_tool requests the MCP server has received

mcpVars == <<mcp_calls, server_calls>>

VARIABLES
  scoped        \* the last operation through a ScopedMemory: arguments and result

VARIABLES
  envelopes,    \* data/vault as text: id -> the envelope on disk, altered or not
  vault_op      \* the last operation on the vault: arguments and result

vaultVars == <<envelopes, vault_op>>

VARIABLES
  limit_per_window, \* SlidingWindowRateLimiter.limit_per_window
  requests,         \* SlidingWindowRateLimiter.requests: key -> instants admitted
  instant,          \* the monotonic clock, in ticks since the origin of Instant
  allows            \* the allow calls made: key, instant, result

rlVars == <<limit_per_window, requests, instant, allows>>

VARIABLES
  soul,         \* the Soul in memory: bindings and raw_content
  soul_file,    \* SOUL.md: None while the file is missing, else its text
  soul_ops,     \* the operations made on the Soul, each with the bindings before it
  diary_read    \* the last answer of get_diary_entries, with its limit

soulVars == <<soul, soul_file, soul_ops, diary_read>>

VARIABLES
  role_call     \* a role resolution: the configuration, the role and its capabilities

roleVars == <<role_call>>

VARIABLES
  ttl,          \* OidcStateStore.ttl, in ticks
  states,       \* OidcStateStore.states: token -> provider and instant of creation
  oidc_now,     \* the monotonic clock the store reads
  oidc_calls    \* the generate and validate calls made, with what they returned

oidcVars == <<ttl, states, oidc_now, oidc_calls>>

VARIABLES
  next_id,      \* McpClient.next_id
  stdin,        \* the requests written to the server and not answered yet
  stdout,       \* the lines the server wrote and no request has read yet
  stdout_lock,  \* the request that holds the lock of stdout, 0 when it is free
  rpc,          \* the calls of McpClient::request: position, id sent, value returned
  sent          \* every line the server has written

clientVars == <<next_id, stdin, stdout, stdout_lock, rpc, sent>>

VARIABLES
  family        \* config.family.members: the names, in the order they were added

familyVars == <<family>>

\* the OIDC state store of the gateway, the client of an MCP server and the
\* family of the configuration
gwVars == <<oidcVars, clientVars, familyVars>>

\* the gateway's rate limiter, the Soul document, the role derived from it
\* and the rest of the gateway
idVars == <<rlVars, soulVars, roleVars, gwVars>>

vars == <<memVars, audit, gateVars, gkVars, mcpVars, scoped, vaultVars, idVars>>

\* what the operations of each component leave alone
NotMemory == <<gateVars, gkVars, mcpVars, scoped, vaultVars, idVars>>
NotGate == <<memVars, gkVars, mcpVars, scoped, vaultVars, idVars>>
NotGatekeeper == <<memVars, gateVars, scoped, vaultVars, idVars>>

(***************************************************************************)
(* Memory categories and the inner backend                                 *)
(***************************************************************************)
Core == [kind |-> "Core", name |-> <<>>]
Conversation == [kind |-> "Conversation", name |-> <<>>]
Custom(s) == [kind |-> "Custom", name |-> s]

\* SimpleMemory::store: insert or replace the entry of the key
InnerStore(m, key, content, category) ==
  [k \in DOMAIN m \cup {key} |->
     IF k = key THEN [content |-> content, category |-> category] ELSE m[k]]

\* the i-th uuid drawn (i >= 1), as text
Uuid(i) == <<"0","0","0","0","0","0","0","0","-","0","0","0","0","-","4","0","0","0","-","8","0","0","0","-","0","0","0","0","0","0","0","0","0","0","0">> \o <<<<"0","1","2","3","4","5","6","7","8","9">>[i + 1]>>

AuditEvent(type, description, risk, approved, allowed) ==
  [event_type |-> type, description |-> description, risk_level |-> risk,
   approved |-> approved, allowed |-> allowed]

(***************************************************************************)
(* SovereignMemory::store and VaultManager::encrypt_to_vault               *)
(***************************************************************************)
\* the points at which a store through the wrapper can fail
Faults == {"none", "inner_store", "audit"} \cup ({"pubkey", "write_envelope", "write_meta", "index_store", "git"})

\* step 1 of store: the recursion guard
IsVaultCategory(category) == category.kind = "Custom" /\ category.name = L_vault

\* format!("Vaulted content for {}: {}", key, reason)
Description(key, reason) == <<"V","a","u","l","t","e","d"," ","c","o","n","t","e","n","t"," ","f","o","r"," ">> \o key \o <<":"," ">> \o reason

\* a pointer that takes the token format of redact() instead
Pointer_Redact(reason) == <<"[","R","E","D","A","C","T","E","D",":">> \o reason \o <<"]">>

\* format!("[VAULT: {} - Access Required]", reason)
Pointer(reason) == L_VaultOpen \o reason \o L_VaultClose

\* format!("vault:{}", id)
IndexKey(id) == <<"v","a","u","l","t",":">> \o id

\* the SigilInterception event of step 5
InterceptionEvent(reason) ==
  AuditEvent("SigilInterception", <<"R","e","d","a","c","t","e","d"," ">> \o reason \o <<" ","f","r","o","m"," ","m","e","m","o","r","y">>, "low", TRUE, TRUE)

\* the record of a store call
Call(key, content, category, result, written, fault) ==
  [key |-> key, content |-> content, category |-> category,
   result |-> result, written |-> written, fault |-> fault]

\* self.inner.store(key, content, category), the pass-through of steps 1 and 5
PassThrough(key, content, category, fault) ==
  /\ UNCHANGED <<vault_dir, meta_dir, audit, uuids>>
  /\ IF fault = "inner_store"
       THEN /\ inner' = inner
            /\ last' = Call(key, content, category, "Err", {}, fault)
       ELSE /\ inner' = InnerStore(inner, key, content, category)
            /\ last' = Call(key, content, category, "Ok", {key}, fault)

\* steps 3 to 5 with the audit event emitted before the vault is written
VaultAndPoint_AuditFirst(key, content, category, reason, fault) ==
  LET id == Uuid(uuids + 1)
      description == Description(key, reason)
      vaulted == fault \notin {"pubkey", "write_envelope", "write_meta", "index_store", "git"}
      pointed == vaulted /\ fault # "inner_store"
      indexedInner == IF fault \notin {"pubkey", "write_envelope", "write_meta", "index_store"}
                        THEN InnerStore(inner, IndexKey(id), description, Custom(L_vault))
                        ELSE inner
  IN  /\ uuids' = uuids + 1
      /\ audit' = IF fault # "audit" THEN Append(audit, InterceptionEvent(reason)) ELSE audit
      /\ vault_dir' = IF fault \notin {"pubkey", "write_envelope"}
                        THEN [i \in DOMAIN vault_dir \cup {id} |->
                                IF i = id THEN content ELSE vault_dir[i]]
                        ELSE vault_dir
      /\ meta_dir' = IF fault \notin {"pubkey", "write_envelope", "write_meta"}
                       THEN [i \in DOMAIN meta_dir \cup {id} |->
                               IF i = id THEN description ELSE meta_dir[i]]
                       ELSE meta_dir
      /\ inner' = IF pointed
                    THEN InnerStore(indexedInner, key, Pointer(reason), category)
                    ELSE indexedInner
      /\ last' = Call(key, content, category, IF pointed THEN "Ok" ELSE "Err",
                      (IF indexedInner # inner THEN {IndexKey(id)} ELSE {})
                        \cup (IF pointed THEN {key} ELSE {}),
                      fault)

\* steps 3 to 5 of store: encrypt_to_vault, the audit event, the pointer
VaultAndPoint(key, content, category, reason, fault) ==
  LET id == Uuid(uuids + 1)
      description == Description(key, reason)
      sealed == fault # "pubkey" /\ fault # "write_envelope"
      described == sealed /\ fault # "write_meta"
      indexed == described /\ fault # "index_store"
      vaulted == indexed /\ fault # "git"
      indexedInner == IF indexed
                        THEN InnerStore(inner, IndexKey(id), description, Custom(L_vault))
                        ELSE inner
      pointed == vaulted /\ fault # "inner_store"
  IN  /\ uuids' = uuids + 1
      /\ vault_dir' = IF sealed
                        THEN [i \in DOMAIN vault_dir \cup {id} |->
                                IF i = id THEN content ELSE vault_dir[i]]
                        ELSE vault_dir
      /\ meta_dir' = IF described
                       THEN [i \in DOMAIN meta_dir \cup {id} |->
                               IF i = id THEN description ELSE meta_dir[i]]
                       ELSE meta_dir
      /\ audit' = IF vaulted /\ fault # "audit"
                    THEN Append(audit, InterceptionEvent(reason))
                    ELSE audit
      /\ inner' = IF pointed
                    THEN InnerStore(indexedInner, key, Pointer(reason), category)
                    ELSE indexedInner
      /\ last' = Call(key, content, category,
                      IF pointed THEN "Ok" ELSE "Err",
                      (IF indexed THEN {IndexKey(id)} ELSE {})
                        \cup (IF pointed THEN {key} ELSE {}),
                      fault)

\* a store without the check of step 1: every category is scanned
SovereignStore_NoVaultCheck(key, content, category, found, fault) ==
  /\ stores < MaxStores
  /\ UNCHANGED NotMemory
  /\ stores' = stores + 1
  /\ IF IsSome(found)
       THEN VaultAndPoint(key, content, category, Unwrap(found), fault)
       ELSE /\ fault \in {"none", "inner_store"}
            /\ PassThrough(key, content, category, fault)

\* SovereignMemory::store(key, content, category)
SovereignStore(key, content, category, found, fault) ==
  /\ stores < MaxStores
  /\ UNCHANGED NotMemory
  /\ stores' = stores + 1
  /\ IF IsVaultCategory(category)
       THEN fault \in {"none", "inner_store"} /\ PassThrough(key, content, category, fault)
       ELSE IF IsSome(found)
              THEN VaultAndPoint(key, content, category, Unwrap(found), fault)
              ELSE /\ fault \in {"none", "inner_store"}
                   /\ PassThrough(key, content, category, fault)

\* VaultManager::list_entries: the metadata records that parse, and nothing
\* else: it reads no vault file and its result has no place for a flag
list_entries ==
  [entries |-> {[id |-> i, description |-> meta_dir[i],
                 vault_path |-> i \o <<".","v","a","u","l","t">>] : i \in DOMAIN meta_dir},
   flagged |-> {}]

Keys == {<<"n","o","t","e","1">>, <<"p","i","n","1","2","3","4">>}
Contents == {<<"T","h","e"," ","w","e","a","t","h","e","r"," ","i","s"," ","n","i","c","e"," ","t","o","d","a","y">>, <<"a","s","k","-","m","e"," ","l","a","t","e","r">>, T_Pin, <<"p","i","n","1","2","3","4">>, <<"M","y"," ","k","e","y"," ","i","s"," ","s","k","-","a","b","c","1","2","3","d","e","f","4","5","6","g","h","i","7","8","9","j","k","l">>}
Categories == {Core, Conversation, Custom(L_vault)}

NoCall == Call(<<>>, <<>>, Core, "None", {}, "none")

MemInit ==
  /\ inner = <<>>
  /\ vault_dir = <<>>
  /\ meta_dir = <<>>
  /\ audit = <<>>
  /\ uuids = 0
  /\ stores = 0
  /\ last = NoCall

\* a caller stores some content under some key and category
Store ==
  \E content \in Contents :
    LET found == scan(content)
    IN  \E key \in Keys, category \in Categories, fault \in Faults :
          SovereignStore(key, content, category, found, fault)

(***************************************************************************)
(* Properties of the Sovereign wrapper                                     *)
(***************************************************************************)
\* what the scanner finds on each content a caller stores
ScanOf == [c \in Contents |-> scan(c)]

\* the last call was a successful store of a category other than Custom("vault")
StoredOutsideVault == last.result = "Ok" /\ ~IsVaultCategory(last.category)

\* C1: redaction completeness. After a successful store of scanner-matching
\* content under a category other than Custom("vault"), no entry the call
\* wrote to the inner backend, under whatever key, holds a content on which
\* scanner.scan finds a match.
C1_RedactionComplete ==
  (StoredOutsideVault /\ IsSome(ScanOf[last.content])) =>
    \A k \in last.written : scan(inner[k].content) = None

\* C2: after a successful store of a category other than Custom("vault") the
\* inner backend holds, under the key and category of the call, the content
\* verbatim when the scanner finds nothing and exactly the text
\* "[VAULT: <P> - Access Required]" when it finds pattern P.
C2_VerbatimOrPointer ==
  StoredOutsideVault =>
    /\ last.key \in DOMAIN inner
    /\ inner[last.key].category = last.category
    /\ inner[last.key].content =
         IF ScanOf[last.content] = None
           THEN last.content
           ELSE L_VaultOpen \o Unwrap(ScanOf[last.content]) \o L_VaultClose

\* a key that held harmless text is overwritten by the pointer of a PIN
C2_Witness ==
  /\ StoredOutsideVault
  /\ stores = 2
  /\ last.content = T_Pin
  /\ last.category = Conversation
  /\ last.key \in DOMAIN inner
  /\ inner[last.key].content = L_VaultOpen \o PatternNames[7] \o L_VaultClose

\* C15: a store with category Custom("vault") creates no envelope, no
\* metadata record and no audit event, and when it succeeds the inner backend
\* changes only at the key of the call, which then holds the content and the
\* category of the call as given; no store call creates more than one
\* envelope
C15_VaultCategoryPassesThrough ==
  [][(stores' = stores + 1) =>
       /\ Cardinality(DOMAIN vault_dir') <= Cardinality(DOMAIN vault_dir) + 1
       /\ IsVaultCategory(last'.category) =>
            /\ vault_dir' = vault_dir /\ meta_dir' = meta_dir
            /\ audit' = audit /\ uuids' = uuids
            /\ last'.result = "Err" => inner' = inner
            /\ last'.result = "Ok" =>
                 /\ DOMAIN inner' = DOMAIN inner \cup {last'.key}
                 /\ inner'[last'.key] =
                      [content |-> last'.content, category |-> last'.category]
                 /\ \A k \in DOMAIN inner \ {last'.key} : inner'[k] = inner[k]]_vars

\* a PIN stored under Custom("vault") lies verbatim in the inner backend
C15_Witness ==
  /\ IsVaultCategory(last.category)
  /\ last.result = "Ok"
  /\ last.content = T_Pin
  /\ inner[last.key] = [content |-> T_Pin, category |-> Custom(L_vault)]
  /\ vault_dir = <<>>
  /\ audit = <<>>

\* the store step just taken failed on the vault path
VaultingFailed ==
  /\ stores' = stores + 1
  /\ ~IsVaultCategory(last'.category)
  /\ IsSome(ScanOf[last'.content])
  /\ last'.fault \in {"pubkey", "write_envelope", "write_meta", "index_store", "git"}

\* C40: a store of scanner-matching content that fails on the vault path
\* returns the error, leaves the entry of the original key as it was and
\* leaves no entry of the inner backend, under whatever key, with the
\* original content in it that did not have it before
C40_FailedVaultingLeaksNothing ==
  [][VaultingFailed =>
       /\ last'.result = "Err"
       /\ (last'.key \in DOMAIN inner') = (last'.key \in DOMAIN inner)
       /\ last'.key \in DOMAIN inner => inner'[last'.key] = inner[last'.key]
       /\ \A k \in DOMAIN inner' :
            Contains(inner'[k].content, last'.content) =>
              k \in DOMAIN inner /\ inner'[k] = inner[k]]_vars

\* the store step just taken scanned its content and found a match
Intercepting == stores' = stores + 1 /\ ~IsVaultCategory(last'.category)
                  /\ IsSome(ScanOf[last'.content])

\* the step added exactly one envelope, holding the content of the call
OneEnvelope ==
  \E id \in DOMAIN vault_dir' \ DOMAIN vault_dir :
    /\ DOMAIN vault_dir' = DOMAIN vault_dir \cup {id}
    /\ vault_dir'[id] = last'.content

\* the step appended exactly one event, the SigilInterception of the match
OneEvent ==
  audit' = Append(audit, AuditEvent("SigilInterception",
             <<"R","e","d","a","c","t","e","d"," ">> \o Unwrap(ScanOf[last'.content])
               \o <<" ","f","r","o","m"," ","m","e","m","o","r","y">>,
             "low", TRUE, TRUE))

\* the pointer lies under the key and category of the call
OnePointer ==
  /\ last'.key \in DOMAIN inner'
  /\ inner'[last'.key] =
       [content |-> L_VaultOpen \o Unwrap(ScanOf[last'.content]) \o L_VaultClose,
        category |-> last'.category]

\* C16 as stated: every successful store of matching content adds exactly
\* one envelope, appends exactly one SigilInterception event and leaves the
\* pointer under the key and category of the call; the event is never
\* appended before the vault write is complete nor the pointer stored before
\* the event; a store that does not intercept adds no envelope and no event
C16_OneOfEach ==
  [][/\ (Intercepting /\ last'.result = "Ok") => OneEnvelope /\ OneEvent /\ OnePointer
     /\ (Intercepting /\ audit' # audit) => OneEnvelope /\ OneEvent
     /\ (stores' = stores + 1 /\ ~Intercepting) =>
          vault_dir' = vault_dir /\ audit' = audit]_vars

\* C16 with the audit log allowed to fail: as C16_OneOfEach, but a store
\* whose audit write fails still succeeds and appends no event
C16_OneOfEachUnlessAuditFails ==
  [][/\ (Intercepting /\ last'.result = "Ok") =>
          /\ OneEnvelope /\ OnePointer
          /\ IF last'.fault = "audit" THEN audit' = audit ELSE OneEvent
     /\ (Intercepting /\ audit' # audit) => OneEnvelope /\ OneEvent
     /\ (Intercepting /\ last'.result = "Err" /\ last'.key \in DOMAIN inner) =>
          inner'[last'.key] = inner[last'.key]
     /\ (stores' = stores + 1 /\ ~Intercepting) =>
          vault_dir' = vault_dir /\ audit' = audit]_vars

\* the second interception of a run: two envelopes, two events, the pointer
C16_Witness ==
  /\ StoredOutsideVault
  /\ last.content = T_Pin
  /\ last.fault = "none"
  /\ Cardinality(DOMAIN vault_dir) = 2
  /\ Len(audit) = 2
  /\ audit[2].event_type = "SigilInterception"
  /\ inner[last.key].content = L_VaultOpen \o PatternNames[7] \o L_VaultClose

\* C17: after any sequence of encrypt_to_vault calls, failed ones included,
\* every metadata record has its envelope at vault_path and every envelope
\* has its metadata record, or else list_entries flags the orphan
C17_MetadataEnvelopeOneToOne ==
  /\ \A m \in list_entries.entries :
       m.id \in DOMAIN vault_dir \/ m.id \in list_entries.flagged
  /\ \A id \in DOMAIN vault_dir :
       \/ \E m \in list_entries.entries : m.vault_path = id \o <<".","v","a","u","l","t">>
       \/ id \in list_entries.flagged

(***************************************************************************)
(* SecurityPolicy: the checks the wrapper and the gatekeeper consult       *)
(***************************************************************************)
\* tool invocations in one run
MaxCalls == 2
\* resolve_confirmation calls in one run
MaxResolves == 2
\* receivers subscribed to the notifications of the gate
MaxSubscribers == 2

\* the largest rate ceiling a policy is configured with
MaxCeiling == 2

Calls == 1..MaxCalls

Tool_shell == <<"s","h","e","l","l">>
Tool_delegate == <<"d","e","l","e","g","a","t","e">>
Tool_file_read == <<"f","i","l","e","_","r","e","a","d">>
Tools == {Tool_shell, Tool_delegate, Tool_file_read}

\* TrustLevel, ordered Low < Medium < High
TrustRank(t) == CASE t = "Low" -> 1 [] t = "Medium" -> 2 [] t = "High" -> 3

\* the skill allow-list: empty allows every tool
is_skill_allowed(p, name) == p.allowed_skills = {} \/ name \in p.allowed_skills

\* ok iff the current trust reaches the required one
check_trust(p, required) == TrustRank(p.current_trust) >= TrustRank(required)

\* confirmation_required maps a tool name to the actions that need approval
requires_confirmation(p, name, action) == <<name, action>> \in p.confirmation_required

\* the policies a process is configured with
Policies ==
  [allowed_skills : {{}, {Tool_file_read}},
   current_trust : {"Low", "High"},
   confirmation_required : {{<<Tool_delegate, "execute">>}},
   max_actions_per_hour : {MaxCeiling},
   required_trust_for_delegation : {"High"},
   required_trust_for_shell : {"Low"},
   required_trust_for_mcp : {"Medium"},
   required_trust_for_vault : {"High"}]

(***************************************************************************)
(* SecurityWrapper::execute (src/src/tools/security.rs)                    *)
(***************************************************************************)
StartsWith(name, prefix) == HasAt(name, 1, prefix)

\* a match without the arm of the network tools
RequiredTrust_NetworkUnchecked(p, name) ==
  IF name = Tool_delegate THEN Some(p.required_trust_for_delegation)
  ELSE IF name = Tool_shell THEN Some(p.required_trust_for_shell)
  ELSE IF \/ StartsWith(name, <<"c","a","l","e","n","d","a","r","_">>)
          \/ StartsWith(name, <<"c","o","n","t","a","c","t","s","_">>)
          \/ StartsWith(name, <<"n","o","t","e","s","_">>)
    THEN Some(p.required_trust_for_vault)
  ELSE IF StartsWith(name, <<"m","c","p",":">>) THEN Some(p.required_trust_for_mcp)
  ELSE None

\* step 2: the trust level the match on the tool name asks for, if any
RequiredTrust(p, name) ==
  IF name = Tool_delegate THEN Some(p.required_trust_for_delegation)
  ELSE IF name = Tool_shell THEN Some(p.required_trust_for_shell)
  ELSE IF name \in {<<"h","t","t","p","_","r","e","q","u","e","s","t">>, <<"b","r","o","w","s","e","r">>, <<"b","r","o","w","s","e","r","_","o","p","e","n">>}
    THEN Some(p.required_trust_for_mcp)
  ELSE IF \/ StartsWith(name, <<"c","a","l","e","n","d","a","r","_">>)
          \/ StartsWith(name, <<"c","o","n","t","a","c","t","s","_">>)
          \/ StartsWith(name, <<"n","o","t","e","s","_">>)
    THEN Some(p.required_trust_for_vault)
  ELSE IF StartsWith(name, <<"m","c","p",":">>) THEN Some(p.required_trust_for_mcp)
  ELSE None

Decision(steps, verdict) == [steps |-> steps, verdict |-> verdict]

\* a wrapper that lets a tool needing confirmation run when no gate is attached
WrapperDecision_NoGateRuns(p, gate, name) ==
  IF ~is_skill_allowed(p, name) THEN Decision(<<"skill">>, "skill_denied")
  ELSE IF IsSome(RequiredTrust(p, name)) /\ ~check_trust(p, Unwrap(RequiredTrust(p, name)))
    THEN Decision(<<"skill", "trust">>, "trust_denied")
  ELSE IF requires_confirmation(p, name, "execute") /\ gate
    THEN Decision(<<"skill", "trust", "confirmation">>, "confirm")
  ELSE Decision(<<"skill", "trust", "confirmation">>, "execute")

\* steps 1 to 3 of execute, up to the call of gate.request or of the inner
\* tool: the checks made, in order, and what they decide
WrapperDecision(p, gate, name) ==
  IF ~is_skill_allowed(p, name) THEN Decision(<<"skill">>, "skill_denied")
  ELSE IF IsSome(RequiredTrust(p, name)) /\ ~check_trust(p, Unwrap(RequiredTrust(p, name)))
    THEN Decision(<<"skill", "trust">>, "trust_denied")
  ELSE IF requires_confirmation(p, name, "execute")
    THEN IF gate THEN Decision(<<"skill", "trust", "confirmation">>, "confirm")
                 ELSE Decision(<<"skill", "trust", "confirmation">>, "no_channel")
  ELSE Decision(<<"skill", "trust", "confirmation">>, "execute")

(***************************************************************************)
(* ConfirmationGate (src/src/security/confirmation.rs)                     *)
(***************************************************************************)
\* pending.insert(id, ..) and pending.remove(id)
MapInsert(m, k, v) == [x \in DOMAIN m \cup {k} |-> IF x = k THEN v ELSE m[x]]
MapRemove(m, k) == [x \in DOMAIN m \ {k} |-> m[x]]

NoRequest == [pc |-> "none", id |-> <<>>, value |-> None, rx |-> FALSE,
              result |-> "none", ret |-> FALSE]

\* request, up to the release of the lock: draw the id, insert the sender
\* under the lock
RequestInsert(c, name) ==
  LET id == Uuid(req_ids + 1)
  IN  /\ req_ids' = req_ids + 1
      /\ pending' = MapInsert(pending, id, [id |-> id, tool_name |-> name])
      /\ req' = [req EXCEPT ![c] = [NoRequest EXCEPT !.pc = "inserted", !.id = id, !.rx = TRUE]]

\* request does not suspend between the release of the lock and the send:
\* while a request stands between them only the steps that the publication
\* can tell apart, a resolve and a subscribe, are interleaved
NoneUnpublished == \A c \in Calls : req[c].pc # "inserted"

\* execute, from its entry to its first suspension or its return
WrapperExecute(c, name) ==
  /\ wrap[c].pc = "idle"
  /\ NoneUnpublished
  /\ \A b \in Calls : b < c => wrap[b].pc # "idle"
  /\ LET d == WrapperDecision(policy, confirm_gate, name)
     IN  /\ wrap' = [wrap EXCEPT ![c] =
                       [tool |-> name,
                        pc |-> IF d.verdict = "confirm" THEN "confirming" ELSE "done",
                        steps |-> CASE d.verdict = "execute" -> Append(d.steps, "inner")
                                    [] d.verdict = "confirm" -> Append(d.steps, "request")
                                    [] OTHER -> d.steps,
                        verdict |-> IF d.verdict = "execute" THEN "executed" ELSE d.verdict]]
         /\ IF d.verdict = "confirm"
              THEN RequestInsert(c, name)
              ELSE UNCHANGED <<req, pending, req_ids>>
  /\ UNCHANGED NotGate
  /\ UNCHANGED <<policy, confirm_gate, notified, inbox, resolves, granted, answer, audit>>

\* a broadcast that reaches the first subscriber only
Broadcast_FirstOnly(boxes, message) ==
  [s \in DOMAIN boxes |-> IF s = 1 THEN Append(boxes[s], message) ELSE boxes[s]]

\* notify_tx.send: every receiver subscribed gets the message; with no
\* receiver the send fails and the message is dropped
Broadcast(boxes, message) == [s \in DOMAIN boxes |-> Append(boxes[s], message)]

\* request, from the release of the lock to the await of the response:
\* publish the request; the result of send is discarded
RequestPublish(c) ==
  /\ req[c].pc = "inserted"
  /\ notified' = Append(notified, req[c].id)
  /\ inbox' = Broadcast(inbox, [id |-> req[c].id, tool_name |-> wrap[c].tool])
  /\ req' = [req EXCEPT ![c] = [@ EXCEPT !.pc = "awaiting"]]
  /\ UNCHANGED NotGate
  /\ UNCHANGED <<policy, confirm_gate, wrap, pending, req_ids, resolves, granted, answer, audit>>

\* ConfirmationGate::subscribe: a receiver that sees the requests sent
\* from now on; receivers attach while no request is in flight
Subscribe ==
  /\ Len(inbox) < MaxSubscribers
  /\ \A c \in Calls : req[c].pc \in {"none", "returned"}
  /\ inbox' = Append(inbox, <<>>)
  /\ UNCHANGED NotGate
  /\ UNCHANGED <<policy, confirm_gate, wrap, req, pending, notified, req_ids, resolves, granted, answer, audit>>

\* request: timeout(rx) completes, with the value sent or, when none was
\* sent, with Elapsed once the timeout has run out; rx is dropped
RequestWake(c) ==
  /\ req[c].pc = "awaiting"
  /\ NoneUnpublished
  /\ req' = [req EXCEPT ![c] =
               [@ EXCEPT !.pc = "woke", !.rx = FALSE,
                         !.result = IF IsSome(req[c].value) THEN "Value" ELSE "Elapsed"]]
  /\ UNCHANGED NotGate
  /\ UNCHANGED <<policy, confirm_gate, wrap, pending, notified, inbox, req_ids, resolves, granted, answer, audit>>

\* a request that returns true when the timeout ran out
RequestResult_TimeoutApproves(result, value) ==
  IF result = "Value" THEN Unwrap(value) ELSE TRUE

\* the match on result: the approval received, false on timeout
RequestResult(result, value) ==
  IF result = "Value" THEN Unwrap(value) ELSE FALSE

\* a clean-up that leaves the entry in the table
CleanUp_Keep(m, id) == m

\* request: the clean-up block
CleanUp(m, id) == MapRemove(m, id)

\* request: clean up under the lock and return; execute then runs the inner
\* tool on true and returns an error on false
RequestCleanup(c) ==
  /\ req[c].pc = "woke"
  /\ NoneUnpublished
  /\ pending' = CleanUp(pending, req[c].id)
  /\ LET ret == RequestResult(req[c].result, req[c].value)
     IN  /\ req' = [req EXCEPT ![c] = [@ EXCEPT !.pc = "returned", !.ret = ret]]
         /\ wrap' = [wrap EXCEPT ![c] =
                       [@ EXCEPT !.pc = "done",
                                 !.steps = IF ret THEN Append(@, "inner") ELSE @,
                                 !.verdict = IF ret THEN "executed" ELSE "confirm_denied"]]
  /\ UNCHANGED NotGate
  /\ UNCHANGED <<policy, confirm_gate, notified, inbox, req_ids, resolves, granted, answer, audit>>

\* the caller drops the future of execute at one of the awaits of request:
\* that of the response or that of the lock of the clean-up
Cancel(c) ==
  /\ req[c].pc \in {"awaiting", "woke"}
  /\ NoneUnpublished
  /\ req' = [req EXCEPT ![c] = [@ EXCEPT !.pc = "cancelled", !.rx = FALSE]]
  /\ wrap' = [wrap EXCEPT ![c] = [@ EXCEPT !.pc = "cancelled"]]
  /\ UNCHANGED NotGate
  /\ UNCHANGED <<policy, confirm_gate, pending, notified, inbox, req_ids, resolves, granted, answer, audit>>

\* a resolve that reads the entry and leaves it in the table
Take_Keep(m, id) == m

\* resolve: pending.remove(id) under the lock
Take(m, id) == MapRemove(m, id)

\* the audit event of resolve_confirmation
DecisionEvent(id, approved) ==
  AuditEvent("SecurityEvent", <<"c","o","n","f","i","r","m",":">> \o id,
             IF approved THEN "approved" ELSE "denied", approved, TRUE)

\* a resolve that sends the decision to every request that waits
Resolve_AnyWaiter(id, approved) ==
  IF id \in DOMAIN pending
    THEN /\ pending' = Take(pending, id)
         /\ req' = [c \in Calls |->
                      IF req[c].rx
                        THEN [req[c] EXCEPT !.value = Some(approved)] ELSE req[c]]
         /\ granted' = [granted EXCEPT ![id] = @ + 1]
    ELSE UNCHANGED <<pending, req, granted>>

\* resolve: take the sender; when there is one, tx.send(approved), which
\* fails when rx was dropped, and return true
Resolve(id, approved) ==
  IF id \in DOMAIN pending
    THEN /\ pending' = Take(pending, id)
         /\ req' = [c \in Calls |->
                      IF req[c].id = id /\ req[c].rx
                        THEN [req[c] EXCEPT !.value = Some(approved)] ELSE req[c]]
         /\ granted' = [granted EXCEPT ![id] = @ + 1]
    ELSE UNCHANGED <<pending, req, granted>>

\* resolve_confirmation: the role check, resolve, and the audit event of a
\* decision that resolve accepted
ResolveConfirmation(role, id, approved) ==
  /\ resolves < MaxResolves
  /\ resolves' = resolves + 1
  /\ IF role \notin {"Adult", "Root"}
       THEN /\ answer' = [status |-> "FORBIDDEN", id |-> id, resolved |-> FALSE]
            /\ UNCHANGED <<pending, req, granted, audit>>
       ELSE /\ Resolve(id, approved)
            /\ answer' = [status |-> "OK", id |-> id, resolved |-> id \in DOMAIN pending]
            /\ audit' = IF id \in DOMAIN pending
                          THEN Append(audit, DecisionEvent(id, approved)) ELSE audit
  /\ UNCHANGED NotGate
  /\ UNCHANGED <<policy, confirm_gate, wrap, notified, inbox, req_ids>>

NoAnswer == [status |-> "none", id |-> <<>>, resolved |-> FALSE]

\* the ids a resolver may name: those request can draw, issued or not
ResolveIds == {Uuid(i) : i \in 1..MaxCalls}

GateInit ==
  /\ policy \in Policies
  /\ confirm_gate \in BOOLEAN
  /\ wrap = [c \in Calls |-> [tool |-> <<>>, pc |-> "idle", steps |-> <<>>, verdict |-> "none"]]
  /\ req = [c \in Calls |-> NoRequest]
  /\ pending = <<>>
  /\ notified = <<>>
  /\ inbox = <<>>
  /\ req_ids = 0
  /\ resolves = 0
  /\ granted = [id \in ResolveIds |-> 0]
  /\ answer = NoAnswer

GateNext ==
  \/ \E c \in Calls, name \in Tools : WrapperExecute(c, name)
  \/ \E c \in Calls : RequestPublish(c)
  \/ \E c \in Calls : RequestWake(c)
  \/ \E c \in Calls : RequestCleanup(c)
  \/ \E c \in Calls : Cancel(c)
  \/ \E role \in {"Child", "Adult"}, id \in ResolveIds, approved \in BOOLEAN :
       ResolveConfirmation(role, id, approved)

\* invocations of a tool that needs confirmation and of one that does not,
\* requests that run to their return, receivers that subscribe, and the
\* resolvers the role check lets through
NotifyNext ==
  \/ \E c \in Calls, name \in {Tool_delegate, Tool_shell} : WrapperExecute(c, name)
  \/ \E c \in Calls : RequestPublish(c)
  \/ Subscribe
  \/ \E c \in Calls : RequestWake(c)
  \/ \E c \in Calls : RequestCleanup(c)
  \/ \E id \in ResolveIds, approved \in BOOLEAN : ResolveConfirmation("Adult", id, approved)

(***************************************************************************)
(* SigilGatekeeper (src/src/mcp/gatekeeper.rs)                             *)
(***************************************************************************)
\* gate_request calls in one run
MaxGateCalls == 3
\* ticks of the clock in one run
MaxClock == 2
\* the length of the rate window, in ticks
WindowLen == 2

\* record_action: forget the actions that have left the window; refuse when
\* the ceiling is reached, else record this action
record_action(p, w, now) ==
  LET retained == SelectSeq(w, LAMBDA t : now - t < WindowLen)
      ok == Len(retained) < p.max_actions_per_hour
  IN  [ok |-> ok, window |-> IF ok THEN Append(retained, now) ELSE retained]

GateAction(tool_name) == <<"m","c","p",":">> \o tool_name

\* a gate that lets a rate-limited call through
GateOutcome_DeniedPasses(tool_name, allowed) ==
  IF ~allowed
    THEN [ok |-> TRUE, err |-> <<>>,
          events |-> <<AuditEvent("PolicyViolation", GateAction(tool_name), "high", FALSE, FALSE)>>]
    ELSE [ok |-> TRUE, err |-> <<>>,
          events |-> <<AuditEvent("SecurityEvent", GateAction(tool_name), "low", TRUE, TRUE)>>]

\* gate_request after record_action: the result and the events logged
GateOutcome(tool_name, allowed) ==
  IF ~allowed
    THEN [ok |-> FALSE,
          err |-> <<"R","a","t","e"," ","l","i","m","i","t"," ","e","x","c","e","e","d","e","d"," ","f","o","r"," ","M","C","P"," ","t","o","o","l"," ","'">> \o tool_name \o <<"'">>,
          events |-> <<AuditEvent("PolicyViolation", GateAction(tool_name), "high", FALSE, FALSE)>>]
    ELSE [ok |-> TRUE, err |-> <<>>,
          events |-> <<AuditEvent("SecurityEvent", GateAction(tool_name), "low", TRUE, TRUE)>>]

\* log_event: write to the logger when one is attached; a failed write is
\* only warned about
log_event(logger, log, events, fails) ==
  IF logger = "attached" /\ ~fails THEN log \o events ELSE log

\* a gate that refuses the call when the event cannot be written
gate_request_WriteFailureDenies(tool_name, fails) ==
  /\ Len(gk_calls) < MaxGateCalls
  /\ fails => gk_logger = "attached"
  /\ LET r == record_action(policy, window, clock)
         o == GateOutcome(tool_name, r.ok /\ ~fails)
     IN  /\ window' = r.window
         /\ emitted' = emitted \o o.events
         /\ audit' = log_event(gk_logger, audit, o.events, fails)
         /\ gk_calls' = Append(gk_calls,
              [tool |-> tool_name, time |-> clock, allowed |-> r.ok, ok |-> o.ok,
               err |-> o.err, events |-> Len(o.events), written |-> gk_logger = "attached" /\ ~fails])
  /\ UNCHANGED <<clock, gk_logger>>
  /\ UNCHANGED NotGatekeeper

\* SigilGatekeeper::gate_request; fails: the write of the audit event fails
gate_request(tool_name, fails) ==
  /\ Len(gk_calls) < MaxGateCalls
  /\ fails => gk_logger = "attached"
  /\ LET r == record_action(policy, window, clock)
         o == GateOutcome(tool_name, r.ok)
     IN  /\ window' = r.window
         /\ emitted' = emitted \o o.events
         /\ audit' = log_event(gk_logger, audit, o.events, fails)
         /\ gk_calls' = Append(gk_calls,
              [tool |-> tool_name, time |-> clock, allowed |-> r.ok, ok |-> o.ok,
               err |-> o.err, events |-> Len(o.events), written |-> gk_logger = "attached" /\ ~fails])
  /\ UNCHANGED <<clock, gk_logger>>
  /\ UNCHANGED NotGatekeeper

\* time passes
Tick ==
  /\ clock < MaxClock
  /\ clock' = clock + 1
  /\ UNCHANGED <<window, gk_logger, gk_calls, emitted, audit>>
  /\ UNCHANGED mcpVars
  /\ UNCHANGED NotGatekeeper

\* the tool name of the gate_request calls made directly
GateTools == {<<"t","o","o","l">>}

\* gate_request called on its own
GateCall(tool_name, fails) ==
  /\ gate_request(tool_name, fails)
  /\ UNCHANGED mcpVars

\* all_tools_with_runtime: the core tools are wrapped in a SecurityWrapper,
\* the MCP tools are appended as they are
all_tools_with_runtime(tools, extra_tools) ==
  [name \in tools |-> "SecurityWrapper"] @@ [name \in extra_tools |-> "McpTool"]

\* the tools discovered on the MCP servers
McpTools == {<<"t","r","a","n","s","f","e","r","_","f","u","n","d","s">>}

\* the registry of a process with the core tools and the MCP tools
Registry == all_tools_with_runtime(Tools, McpTools)

\* an execute that forwards the call whatever the gate said
McpResult_ForwardsDenied(gate, reply) ==
  [forwarded |-> TRUE, success |-> reply = "ok",
   error |-> IF reply = "ok" THEN <<>> ELSE <<"M","C","P">>]

\* execute after gate_request: refuse with the gate's reason, else forward
\* to the server and translate its reply
McpResult(gate, reply) ==
  IF ~gate.ok
    THEN [forwarded |-> FALSE, success |-> FALSE,
          error |-> <<"S","I","G","I","L",":"," ">> \o gate.err]
    ELSE [forwarded |-> TRUE, success |-> reply = "ok",
          error |-> IF reply = "ok" THEN <<>> ELSE <<"M","C","P">>]

\* McpTool::execute of a registered MCP tool; reply is what the server
\* answers when asked: a result, or a failure (an error of the transport or
\* a result flagged is_error)
McpExecute(tool_name, fails, reply) ==
  /\ Registry[tool_name] = "McpTool"
  /\ gate_request(tool_name, fails)
  /\ LET r == McpResult(gk_calls'[Len(gk_calls')], reply)
     IN  /\ mcp_calls' = Append(mcp_calls,
               [tool |-> tool_name, gate |-> Len(gk_calls'), forwarded |-> r.forwarded,
                success |-> r.success, error |-> r.error,
                recorded |-> Len(window') - Len(SelectSeq(window, LAMBDA t : clock - t < WindowLen))])
         /\ server_calls' = IF r.forwarded THEN Append(server_calls, tool_name)
                                           ELSE server_calls

GkIdle ==
  /\ window = <<>> /\ clock = 0 /\ gk_logger = "none"
  /\ gk_calls = <<>> /\ emitted = <<>>
  /\ mcp_calls = <<>> /\ server_calls = <<>>

GkInit ==
  /\ window = <<>> /\ clock = 0 /\ gk_logger \in {"none", "attached"}
  /\ gk_calls = <<>> /\ emitted = <<>>
  /\ mcp_calls = <<>> /\ server_calls = <<>>

GkNext ==
  \/ \E tool_name \in GateTools, fails \in BOOLEAN : GateCall(tool_name, fails)
  \/ \E tool_name \in McpTools, fails \in BOOLEAN, reply \in {"ok", "failed"} :
       McpExecute(tool_name, fails, reply)
  \/ Tick

(***************************************************************************)
(* ScopedMemory (src/src/memory/scoped.rs) over a SimpleMemory             *)
(***************************************************************************)
\* operations through scoped wrappers in one run
MaxScopedOps == 2

\* FamilyMember::scope: "user:" and the lowercased name without the
\* characters that are neither ASCII alphanumeric nor '-'
scope(name) ==
  LET lower == [i \in DOMAIN name |-> ToLower(name[i])]
  IN  <<"u","s","e","r",":">> \o SelectSeq(lower, LAMBDA c : c \in Lower \cup Digit \cup {"-"})

\* format!("{}:{}", self.user_scope, key)
scoped_key(user_scope, key) == user_scope \o <<":">> \o key

\* format!("{}:{}", SCOPE_SHARED, key)
shared_key(key) == <<"s","h","a","r","e","d">> \o <<":">> \o key

\* a filter that compares the scope without the ':' that ends it
InScope_NoColon(user_scope, k) ==
  StartsWith(k, user_scope) \/ StartsWith(k, <<"s","h","a","r","e","d">>)

\* the filter of recall, list and count
InScope(user_scope, k) ==
  StartsWith(k, user_scope \o <<":">>) \/ StartsWith(k, <<"s","h","a","r","e","d">> \o <<":">>)

\* a MemoryEntry as a caller sees it, with the key it is stored under
Entry(m, k, shown) == [stored |-> k, key |-> shown, content |-> m[k].content]

ScopedOp(op, user_scope, key, ok, out) ==
  [op |-> op, scope |-> user_scope, key |-> key, ok |-> ok, out |-> out, before |-> inner]

\* one more operation; the wrapper has no state besides the inner backend
ScopedFrame ==
  /\ stores < MaxScopedOps
  /\ stores' = stores + 1
  /\ UNCHANGED <<vault_dir, meta_dir, uuids, last, audit, gateVars, gkVars, mcpVars, vaultVars, idVars>>

\* store: under the key of the caller's scope
ScopedStore(user_scope, key, content, category) ==
  /\ ScopedFrame
  /\ inner' = InnerStore(inner, scoped_key(user_scope, key), content, category)
  /\ scoped' = ScopedOp("store", user_scope, key, TRUE, <<>>)

\* a get that tries the shared entry first
ScopedGet_SharedFirst(user_scope, key) ==
  /\ ScopedFrame
  /\ scoped' = ScopedOp("get", user_scope, key, TRUE,
       IF shared_key(key) \in DOMAIN inner
         THEN <<Entry(inner, shared_key(key), shared_key(key))>>
       ELSE IF scoped_key(user_scope, key) \in DOMAIN inner
         THEN <<Entry(inner, scoped_key(user_scope, key), scoped_key(user_scope, key))>>
       ELSE <<>>)
  /\ inner' = inner

\* get: the entry of the caller's scope, else the shared one
ScopedGet(user_scope, key) ==
  /\ ScopedFrame
  /\ scoped' = ScopedOp("get", user_scope, key, TRUE,
       IF scoped_key(user_scope, key) \in DOMAIN inner
         THEN <<Entry(inner, scoped_key(user_scope, key), scoped_key(user_scope, key))>>
       ELSE IF shared_key(key) \in DOMAIN inner
         THEN <<Entry(inner, shared_key(key), shared_key(key))>>
       ELSE <<>>)
  /\ inner' = inner

\* the keys of m in some order: HashMap::values makes no promise of order
RECURSIVE InSomeOrder(_)
InSomeOrder(keys) ==
  IF keys = {} THEN <<>>
  ELSE LET k == CHOOSE x \in keys : TRUE IN <<k>> \o InSomeOrder(keys \ {k})

\* list: the entries of the inner backend that pass the filter
ScopedList(user_scope) ==
  /\ ScopedFrame
  /\ scoped' = ScopedOp("list", user_scope, <<>>, TRUE,
       LET kept == SelectSeq(InSomeOrder(DOMAIN inner), LAMBDA k : InScope(user_scope, k))
       IN  [i \in DOMAIN kept |-> Entry(inner, kept[i], kept[i])])
  /\ inner' = inner

\* a display that strips the prefix of shared entries without tagging them
Shown_Untagged(user_scope, k) ==
  IF StartsWith(k, user_scope \o <<":">>)
    THEN SubSeq(k, Len(user_scope) + 2, Len(k))
    ELSE SubSeq(k, Len(<<"s","h","a","r","e","d">>) + 2, Len(k))

\* strip the scope prefix for display
Shown(user_scope, k) ==
  IF StartsWith(k, user_scope \o <<":">>)
    THEN SubSeq(k, Len(user_scope) + 2, Len(k))
    ELSE <<"[","s","h","a","r","e","d","]"," ">> \o SubSeq(k, Len(<<"s","h","a","r","e","d">>) + 2, Len(k))

\* recall: all is what inner.recall(query, limit * 3) answered; filter,
\* take limit, strip the prefixes
ScopedRecall(user_scope, all, limit) ==
  /\ ScopedFrame
  /\ Len(all) <= limit * 3
  /\ scoped' = ScopedOp("recall", user_scope, <<>>, TRUE,
       LET kept == SelectSeq(all, LAMBDA k : InScope(user_scope, k))
           taken == SubSeq(kept, 1, IF Len(kept) < limit THEN Len(kept) ELSE limit)
       IN  [i \in DOMAIN taken |-> Entry(inner, taken[i], Shown(user_scope, taken[i]))])
  /\ inner' = inner

\* a forget that falls back to the shared entry as get does
ScopedForget_SharedFallback(user_scope, key) ==
  /\ ScopedFrame
  /\ LET k == IF scoped_key(user_scope, key) \in DOMAIN inner
                THEN scoped_key(user_scope, key) ELSE shared_key(key)
     IN  /\ inner' = [x \in DOMAIN inner \ {k} |-> inner[x]]
         /\ scoped' = ScopedOp("forget", user_scope, key, k \in DOMAIN inner, <<>>)

\* forget: SimpleMemory::forget of the key of the caller's scope
ScopedForget(user_scope, key) ==
  /\ ScopedFrame
  /\ inner' = [k \in DOMAIN inner \ {scoped_key(user_scope, key)} |-> inner[k]]
  /\ scoped' = ScopedOp("forget", user_scope, key,
                        scoped_key(user_scope, key) \in DOMAIN inner, <<>>)

\* the family: two members whose scopes differ only past a common stem
Members == {<<"A","l">>, <<"A","l","f">>}

\* the keys callers name
ScopedKeys == {<<"n">>, <<"m">>}

\* entries the inner backend may hold before the wrappers are used: of
\* either member, shared, of the vault index, and without a scope
Stored ==
  {scoped_key(scope(<<"A","l">>), <<"n">>), scoped_key(scope(<<"A","l","f">>), <<"n">>), shared_key(<<"n">>),
   shared_key(<<"m">>), <<"v","a","u","l","t",":","1">>}

\* answers of inner.recall: sequences of distinct stored keys
Answers(n) ==
  UNION {{a \in [1..k -> DOMAIN inner] : \A i, j \in 1..k : i # j => a[i] # a[j]} : k \in 0..n}

NoScopedOp == [op |-> "none", scope |-> <<>>, key |-> <<>>, ok |-> FALSE, out |-> <<>>,
               before |-> <<>>]

ScopedInit ==
  /\ \E keys \in SUBSET Stored :
       inner = [k \in keys |-> [content |-> k, category |-> Core]]
  /\ scoped = NoScopedOp

\* an operation through the wrapper of some member
ScopedNext ==
  \/ \E name \in Members, key \in ScopedKeys :
       ScopedStore(scope(name), key, <<"R","u","s","t">>, Core)
  \/ \E name \in Members, key \in ScopedKeys : ScopedGet(scope(name), key)
  \/ \E name \in Members : ScopedList(scope(name))
  \/ \E name \in Members, all \in Answers(3) : ScopedRecall(scope(name), all, 1)
  \/ \E name \in Members, key \in ScopedKeys : ScopedForget(scope(name), key)

(***************************************************************************)
(* The family of the configuration (src/src/gateway/api/family.rs) and    *)
(* the scopes of its members                                               *)
(***************************************************************************)
\* config.family.max_members
MaxMembers == 2

\* str::eq_ignore_ascii_case
eq_ignore_ascii_case(a, b) ==
  Len(a) = Len(b) /\ \A i \in DOMAIN a : ToLower(a[i]) = ToLower(b[i])

\* POST /api/family/members by Root: refused when the family is full or
\* when a member has the name, compared without ASCII case; else pushed
AddFamilyMember(name) ==
  /\ Len(family) < MaxMembers
  /\ ~ \E i \in DOMAIN family : eq_ignore_ascii_case(family[i], name)
  /\ family' = Append(family, name)
  /\ UNCHANGED <<memVars, audit, gateVars, gkVars, mcpVars, scoped, vaultVars>>
  /\ UNCHANGED <<rlVars, soulVars, roleVars, oidcVars, clientVars>>

\* the names Root posts
FamilyNames == {<<"A","l">>, <<"a","l">>, <<"A"," ","l">>, <<"B","o">>}

\* members are added, and the members use their scoped wrappers
FamilyNext ==
  \/ \E name \in FamilyNames : AddFamilyMember(name)
  \/ \E i \in DOMAIN family, key \in ScopedKeys :
       ScopedStore(scope(family[i]), key, family[i], Core)
  \/ \E i \in DOMAIN family, key \in ScopedKeys : ScopedGet(scope(family[i]), key)
  \/ \E i \in DOMAIN family, key \in ScopedKeys : ScopedForget(scope(family[i]), key)

(***************************************************************************)
(* Properties of the scopes of the family                                  *)
(***************************************************************************)
\* C39: two different members of the family have different scopes
C39_DistinctScopes ==
  \A i, j \in DOMAIN family : i # j => scope(family[i]) # scope(family[j])

(***************************************************************************)
(* The memory stack of create_memory (src/src/memory/mod.rs)               *)
(***************************************************************************)
\* the layers create_memory builds, outermost first: the configured backend
\* wrapped with SovereignMemory and with nothing else
create_memory == <<"SovereignMemory", "backend">>

\* the key the layers above SovereignMemory hand down for a caller's key
StackKey(layers, user_scope, key) ==
  IF \E i \in DOMAIN layers : layers[i] = "ScopedMemory"
    THEN scoped_key(user_scope, key)
    ELSE key

\* the member on whose behalf the stack is used
StackInit == \E name \in Members : scoped = [NoScopedOp EXCEPT !.scope = scope(name)]

\* the member stores some content under some key through the stack
StackStore ==
  \E content \in Contents :
    LET found == scan(content)
    IN  \E key \in Keys, category \in Categories, fault \in Faults :
          SovereignStore(StackKey(create_memory, scoped.scope, key), content, category,
                         found, fault)

(***************************************************************************)
(* The Hybrid Vault (src/src/security/vault.rs): envelopes as text         *)
(***************************************************************************)
\* envelopes written in one run
MaxEnvelopes == 1
\* operations on the vault in one run
MaxVaultOps == 3

\* the base64 alphabet, value v at place v + 1
B64Alphabet == <<"A","B","C","D","E","F","G","H","I","J","K","L","M","N","O","P","Q","R","S","T","U","V","W","X","Y","Z","a","b","c","d","e","f","g","h","i","j","k","l","m","n","o","p","q","r","s","t","u","v","w","x","y","z","0","1","2","3","4","5","6","7","8","9","+","/">>
\* the value of each base64 character
B64Val == [c \in {B64Alphabet[i] : i \in 1..64} |-> (CHOOSE i \in 1..64 : B64Alphabet[i] = c) - 1]

\* cryptfns::base64::encode: three bytes to four characters, '=' padding
b64encode(bytes) ==
  LET n == Len(bytes)
      at(i) == IF i <= n THEN bytes[i] ELSE 0
      v(g) == at(3 * g + 1) * 65536 + at(3 * g + 2) * 256 + at(3 * g + 3)
      ch(g, j) == IF j = 0 THEN B64Alphabet[(v(g) \div 262144) + 1]
                  ELSE IF j = 1 THEN B64Alphabet[((v(g) \div 4096) % 64) + 1]
                  ELSE IF j = 2 THEN (IF 3 * g + 2 > n THEN "="
                                      ELSE B64Alphabet[((v(g) \div 64) % 64) + 1])
                  ELSE (IF 3 * g + 3 > n THEN "=" ELSE B64Alphabet[(v(g) % 64) + 1])
  IN  [i \in 1..(4 * ((n + 2) \div 3)) |-> ch((i - 1) \div 4, (i - 1) % 4)]

\* a decoder that ignores the bits past the last byte
b64decode_AllowTrailingBits(text) ==
  LET n == Len(text)
      pad == IF n >= 2 /\ text[n] = "=" /\ text[n - 1] = "=" THEN 2
             ELSE IF n >= 1 /\ text[n] = "=" THEN 1 ELSE 0
      wellFormed == /\ n % 4 = 0
                    /\ \A i \in 1..(n - pad) : text[i] \in DOMAIN B64Val
      val(i) == IF i > n - pad THEN 0 ELSE B64Val[text[i]]
      v(g) == val(4 * g + 1) * 262144 + val(4 * g + 2) * 4096
                + val(4 * g + 3) * 64 + val(4 * g + 4)
      len == 3 * (n \div 4) - pad
  IN  IF wellFormed
        THEN [ok |-> TRUE,
              bytes |-> [i \in 1..len |->
                           LET w == v((i - 1) \div 3)
                           IN  IF (i - 1) % 3 = 0 THEN w \div 65536
                               ELSE IF (i - 1) % 3 = 1 THEN (w \div 256) % 256
                               ELSE w % 256]]
        ELSE [ok |-> FALSE, bytes |-> <<>>]

\* cryptfns::base64::decode, strict: length a multiple of four, padding only
\* at the end, no character outside the alphabet, no stray trailing bits
b64decode(text) ==
  LET n == Len(text)
      pad == IF n >= 2 /\ text[n] = "=" /\ text[n - 1] = "=" THEN 2
             ELSE IF n >= 1 /\ text[n] = "=" THEN 1 ELSE 0
      wellFormed == /\ n % 4 = 0
                    /\ \A i \in 1..(n - pad) : text[i] \in DOMAIN B64Val
      val(i) == IF i > n - pad THEN 0 ELSE B64Val[text[i]]
      v(g) == val(4 * g + 1) * 262144 + val(4 * g + 2) * 4096
                + val(4 * g + 3) * 64 + val(4 * g + 4)
      len == 3 * (n \div 4) - pad
      canonical == pad = 0 \/ (IF pad = 1 THEN v(n \div 4 - 1) % 256 = 0
                                           ELSE v(n \div 4 - 1) % 65536 = 0)
  IN  IF wellFormed /\ canonical
        THEN [ok |-> TRUE,
              bytes |-> [i \in 1..len |->
                           LET w == v((i - 1) \div 3)
                           IN  IF (i - 1) % 3 = 0 THEN w \div 65536
                               ELSE IF (i - 1) % 3 = 1 THEN (w \div 256) % 256
                               ELSE w % 256]]
        ELSE [ok |-> FALSE, bytes |-> <<>>]

\* the printable ASCII characters, code c at place c - 31
Ascii == <<" ","!","\"","#","$","%","&","'","(",")","*","+",",","-",".","/","0","1","2","3","4","5","6","7","8","9",":",";","<","=",">","?","@","A","B","C","D","E","F","G","H","I","J","K","L","M","N","O","P","Q","R","S","T","U","V","W","X","Y","Z","[","\\","]","^","_","grave","a","b","c","d","e","f","g","h","i","j","k","l","m","n","o","p","q","r","s","t","u","v","w","x","y","z","{","|","}","~">>
AsciiCode == [c \in {Ascii[i] : i \in 1..95} |-> (CHOOSE i \in 1..95 : Ascii[i] = c) + 31]

\* str::as_bytes
as_bytes(text) == [i \in 1..Len(text) |-> AsciiCode[text[i]]]

\* String::from_utf8 on the bytes the model produces
from_utf8(bytes) ==
  IF \A i \in 1..Len(bytes) : bytes[i] >= 32 /\ bytes[i] <= 126
    THEN [ok |-> TRUE, text |-> [i \in 1..Len(bytes) |-> Ascii[bytes[i] - 31]]]
    ELSE [ok |-> FALSE, text |-> <<>>]

\* the sum of the bytes of m and the sum weighted by position
ByteSums(m) ==
  LET places == {i \in 1..Len(m) : m[i] > 0}
  IN  <<BagCardinality([i \in places |-> m[i]]) % 256,
        BagCardinality([i \in places |-> i * m[i]]) % 256>>

\* nonce length of ChaCha20-Poly1305
NONCE_LEN == 12

\* the Poly1305 tag of ChaCha20Poly1305: 16 bytes that depend on the key,
\* the nonce and every byte of the ciphertext
Tag(key, nonce, ct) ==
  LET s == ByteSums(key \o nonce \o ct)
  IN  [j \in 1..16 |-> (s[1] + j * s[2]) % 256]

\* the keystream byte at place i
Keystream(key, nonce, i) == key[((i - 1) % Len(key)) + 1] + nonce[((i - 1) % Len(nonce)) + 1]

\* cipher.encrypt(&nonce, plaintext): the ciphertext followed by its tag
aead_encrypt(key, nonce, plaintext) ==
  LET ct == [i \in 1..Len(plaintext) |-> (plaintext[i] + Keystream(key, nonce, i)) % 256]
  IN  ct \o Tag(key, nonce, ct)

\* cipher.decrypt(nonce, ciphertext): the plaintext when the tag verifies
aead_decrypt(key, nonce, data) ==
  IF Len(data) < 16 THEN [ok |-> FALSE, bytes |-> <<>>]
  ELSE LET ct == SubSeq(data, 1, Len(data) - 16)
       IN  IF SubSeq(data, Len(data) - 15, Len(data)) = Tag(key, nonce, ct)
             THEN [ok |-> TRUE,
                   bytes |-> [i \in 1..Len(ct) |->
                                (ct[i] + 512 - Keystream(key, nonce, i)) % 256]]
             ELSE [ok |-> FALSE, bytes |-> <<>>]

\* cryptfns::rsa::public::encrypt(message, pem): base64 of the ciphertext,
\* which carries an integrity check as the padding of RSA does
rsa_encrypt(message, pair) ==
  LET m == as_bytes(message)
      c == [i \in 1..Len(m) |-> (m[i] + pair * i) % 256]
      s == ByteSums(c)
  IN  b64encode(<<s[1], s[2]>> \o c)

\* cryptfns::rsa::private::decrypt(ciphertext, pem)
rsa_decrypt(text, pair) ==
  LET d == b64decode(text)
      c == SubSeq(d.bytes, 3, Len(d.bytes))
      m == from_utf8([i \in 1..Len(c) |-> (c[i] + 256 * pair * i - pair * i) % 256])
  IN  IF d.ok /\ Len(d.bytes) >= 2 /\ <<d.bytes[1], d.bytes[2]>> = ByteSums(c) /\ m.ok
        THEN [ok |-> TRUE, text |-> m.text]
        ELSE [ok |-> FALSE, text |-> <<>>]

Ok(value) == [ok |-> TRUE, value |-> value, error |-> ""]
Err(message) == [ok |-> FALSE, value |-> <<>>, error |-> message]

\* an envelope with the halves in the other order
hybrid_encrypt_DataFirst(plaintext, pubkey, sym_key, nonce) ==
  IF pubkey = None THEN Err("Cannot read Hoodik admin public key")
  ELSE LET blob == nonce \o aead_encrypt(sym_key, nonce, plaintext)
           wrapped == rsa_encrypt(b64encode(sym_key), Unwrap(pubkey))
       IN  Ok(b64encode(blob) \o <<".">> \o wrapped)

\* VaultManager::hybrid_encrypt with the key and the nonce the generator drew
hybrid_encrypt(plaintext, pubkey, sym_key, nonce) ==
  IF pubkey = None THEN Err("Cannot read Hoodik admin public key")
  ELSE LET blob == nonce \o aead_encrypt(sym_key, nonce, plaintext)
           wrapped == rsa_encrypt(b64encode(sym_key), Unwrap(pubkey))
       IN  Ok(wrapped \o <<".">> \o b64encode(blob))

\* VaultManager::hybrid_decrypt
hybrid_decrypt(envelope, privkey) ==
  IF privkey = None THEN Err("Cannot read Hoodik admin private key")
  ELSE IF \A i \in 1..Len(envelope) : envelope[i] # "."
    THEN Err("Invalid vault envelope (missing '.' separator)")
  ELSE
    LET dot == CHOOSE i \in 1..Len(envelope) :
                 envelope[i] = "." /\ \A j \in 1..(i - 1) : envelope[j] # "."
        sym_key_b64 == rsa_decrypt(SubSeq(envelope, 1, dot - 1), Unwrap(privkey))
        sym_key_bytes == b64decode(sym_key_b64.text)
        blob == b64decode(SubSeq(envelope, dot + 1, Len(envelope)))
        plaintext_bytes == aead_decrypt(sym_key_bytes.bytes,
                                        SubSeq(blob.bytes, 1, NONCE_LEN),
                                        SubSeq(blob.bytes, NONCE_LEN + 1, Len(blob.bytes)))
        text == from_utf8(plaintext_bytes.bytes)
    IN  IF ~sym_key_b64.ok THEN Err("RSA key-unwrap failed")
        ELSE IF ~sym_key_bytes.ok THEN Err("Sym-key decode failed")
        ELSE IF Len(sym_key_bytes.bytes) # 32
          THEN Err("Unwrapped symmetric key has wrong length")
        ELSE IF ~blob.ok THEN Err("Data blob decode failed")
        ELSE IF ~(Len(blob.bytes) > NONCE_LEN)
          THEN Err("Encrypted data too short (missing nonce)")
        ELSE IF ~plaintext_bytes.ok
          THEN Err("Decryption failed - wrong key or tampered data")
        ELSE IF ~text.ok THEN Err("Decrypted vault data is not valid UTF-8")
        ELSE Ok(text.text)

\* the kind of each failure of decrypt_from_vault
ErrorKind(message) ==
  IF message \in {"Cannot read Hoodik admin public key", "Cannot read Hoodik admin private key"}
    THEN "MissingKey"
  ELSE IF message \in {"Invalid vault envelope (missing '.' separator)",
                       "Sym-key decode failed",
                       "Unwrapped symmetric key has wrong length",
                       "Data blob decode failed",
                       "Encrypted data too short (missing nonce)"}
    THEN "MalformedEnvelope"
  ELSE IF message = "RSA key-unwrap failed" THEN "WrappedKeyRejected"
  ELSE IF message = "Decryption failed - wrong key or tampered data" THEN "TamperedData"
  ELSE IF message = "Decrypted vault data is not valid UTF-8" THEN "NonUtf8Plaintext"
  ELSE "NotFound"

\* the admin key pair of hoodik/keys
AdminKey == Some(5)

\* the n-th draw of ChaCha20Poly1305::generate_key and generate_nonce
SymKey(n) == [i \in 1..32 |-> (n * i + 3) % 256]
NonceOf(n) == [i \in 1..NONCE_LEN |-> (n + 7 * i) % 256]

VaultOp(op, id, plaintext, description, result) ==
  [op |-> op, id |-> id, plaintext |-> plaintext, description |-> description,
   result |-> result]

NoVaultOp == VaultOp("none", <<>>, <<>>, <<>>, Ok(<<>>))

VaultFrame ==
  /\ stores < MaxVaultOps
  /\ stores' = stores + 1
  /\ UNCHANGED <<last, audit, gateVars, gkVars, mcpVars, scoped, idVars>>

\* an encrypt_to_vault that indexes the plaintext instead of the description
EncryptToVault_IndexesPlaintext(plaintext, description, pubkey) ==
  /\ VaultFrame
  /\ uuids < MaxEnvelopes
  /\ uuids' = uuids + 1
  /\ LET id == Uuid(uuids + 1)
         encrypted == hybrid_encrypt(as_bytes(plaintext), pubkey,
                                     SymKey(uuids + 1), NonceOf(uuids + 1))
     IN  IF encrypted.ok
           THEN /\ envelopes' = [i \in DOMAIN envelopes \cup {id} |->
                                  IF i = id THEN [text |-> encrypted.value,
                                                  altered |-> FALSE]
                                  ELSE envelopes[i]]
                /\ vault_dir' = [i \in DOMAIN vault_dir \cup {id} |->
                                   IF i = id THEN plaintext ELSE vault_dir[i]]
                /\ meta_dir' = [i \in DOMAIN meta_dir \cup {id} |->
                                  IF i = id THEN description ELSE meta_dir[i]]
                /\ inner' = InnerStore(inner, IndexKey(id), plaintext, Custom(L_vault))
                /\ vault_op' = VaultOp("encrypt", id, plaintext, description, Ok(id))
           ELSE /\ UNCHANGED <<envelopes, vault_dir, meta_dir, inner>>
                /\ vault_op' = VaultOp("encrypt", id, plaintext, description,
                                       Err(encrypted.error))

\* VaultManager::encrypt_to_vault(memory, plaintext, description, _)
EncryptToVault(plaintext, description, pubkey) ==
  /\ VaultFrame
  /\ uuids < MaxEnvelopes
  /\ uuids' = uuids + 1
  /\ LET id == Uuid(uuids + 1)
         encrypted == hybrid_encrypt(as_bytes(plaintext), pubkey,
                                     SymKey(uuids + 1), NonceOf(uuids + 1))
     IN  IF encrypted.ok
           THEN /\ envelopes' = [i \in DOMAIN envelopes \cup {id} |->
                                  IF i = id THEN [text |-> encrypted.value,
                                                  altered |-> FALSE]
                                  ELSE envelopes[i]]
                /\ vault_dir' = [i \in DOMAIN vault_dir \cup {id} |->
                                   IF i = id THEN plaintext ELSE vault_dir[i]]
                /\ meta_dir' = [i \in DOMAIN meta_dir \cup {id} |->
                                  IF i = id THEN description ELSE meta_dir[i]]
                /\ inner' = InnerStore(inner, IndexKey(id), description, Custom(L_vault))
                /\ vault_op' = VaultOp("encrypt", id, plaintext, description, Ok(id))
           ELSE /\ UNCHANGED <<envelopes, vault_dir, meta_dir, inner>>
                /\ vault_op' = VaultOp("encrypt", id, plaintext, description,
                                       Err(encrypted.error))

\* VaultManager::decrypt_from_vault(id)
DecryptFromVault(id, privkey) ==
  /\ VaultFrame
  /\ UNCHANGED <<envelopes, vault_dir, meta_dir, inner, uuids>>
  /\ vault_op' = VaultOp("decrypt", id, <<>>, <<>>,
                         IF id \notin DOMAIN envelopes THEN Err("Vault entry not found")
                         ELSE hybrid_decrypt(envelopes[id].text, privkey))

\* the character a mutation puts in the place of c: its neighbour in the
\* base64 alphabet, or the separator
Mutations(c) ==
  {IF c \in DOMAIN B64Val THEN B64Alphabet[((B64Val[c] + 1) % 64) + 1] ELSE "A", "."} \ {c}

\* somebody alters one character of one envelope on disk
Tamper(id) ==
  /\ VaultFrame
  /\ \A i \in DOMAIN envelopes : ~envelopes[i].altered
  /\ \E place \in 1..Len(envelopes[id].text) :
       \E c \in Mutations(envelopes[id].text[place]) :
         envelopes' = [envelopes EXCEPT ![id].text[place] = c, ![id].altered = TRUE]
  /\ vault_op' = VaultOp("tamper", id, <<>>, <<>>, Ok(<<>>))
  /\ UNCHANGED <<vault_dir, meta_dir, inner, uuids>>

\* the plaintexts callers hand to encrypt_to_vault, each with a description;
\* the last description quotes its plaintext
VaultInputs ==
  {<<<<>>, <<"n","o","t","e">>>>,
   <<<<"k">>, <<"n","o","t","e">>>>,
   <<<<"o","k">>, <<"o","k"," ","n","o","t","e">>>>}

VaultIdle == envelopes = <<>> /\ vault_op = NoVaultOp

VaultNext ==
  \/ \E input \in VaultInputs : EncryptToVault(input[1], input[2], AdminKey)
  \/ \E n \in 1..MaxEnvelopes : DecryptFromVault(Uuid(n), AdminKey)
  \/ \E id \in DOMAIN envelopes : Tamper(id)

(***************************************************************************)
(* SlidingWindowRateLimiter (src/src/gateway/mod.rs)                       *)
(***************************************************************************)
\* the largest limit a limiter is built with
MaxLimit == 2
\* the window of a limiter, in ticks
MaxWindow == 2
\* allow calls made in one run
MaxAllows == 4
\* the last instant of a run
MaxInstant == 4

RlKeys == {"client_a", "client_b"}

\* now.checked_sub(window).unwrap_or_else(Instant::now): the instant one
\* window ago where Instant can represent it; an Instant that cannot go
\* below its origin yields None, and the cutoff is then a second reading
\* of the clock, which is not before now
Cutoffs(now, win) ==
  IF now >= win THEN {now - win} ELSE {now - win, now}

\* entry.retain(|instant| *instant > cutoff)
Retained(entry, cutoff) == SelectSeq(entry, LAMBDA t : t > cutoff)

\* SlidingWindowRateLimiter::allow
Allow(key) ==
  /\ Len(allows) < MaxAllows
  /\ \E cutoff \in Cutoffs(instant, MaxWindow) :
       LET entry == IF key \in DOMAIN requests THEN requests[key] ELSE <<>>
           kept == Retained(entry, cutoff)
           set(e) == [k \in DOMAIN requests \cup {key} |->
                        IF k = key THEN e ELSE requests[k]]
           ret(ok) == allows' = Append(allows, [key |-> key, at |-> instant, ok |-> ok])
       IN  IF limit_per_window = 0
             THEN requests' = requests /\ ret(TRUE)
           ELSE IF Len(kept) >= limit_per_window
             THEN requests' = set(kept) /\ ret(FALSE)
           ELSE requests' = set(Append(kept, instant)) /\ ret(TRUE)
  /\ UNCHANGED <<limit_per_window, instant, soulVars, roleVars, gwVars>>
  /\ UNCHANGED <<memVars, audit, gateVars, gkVars, mcpVars, scoped, vaultVars>>

\* time passes
Elapse ==
  /\ instant < MaxInstant
  /\ instant' = instant + 1
  /\ UNCHANGED <<limit_per_window, requests, allows, soulVars, roleVars, gwVars>>
  /\ UNCHANGED <<memVars, audit, gateVars, gkVars, mcpVars, scoped, vaultVars>>

\* a limiter that has admitted nothing; SlidingWindowRateLimiter::new
RlNew(limit) ==
  /\ limit_per_window = limit
  /\ requests = <<>> /\ instant = 0 /\ allows = <<>>

RlNext ==
  \/ \E key \in RlKeys : Allow(key)
  \/ Elapse

(***************************************************************************)
(* Soul (src/src/identity/soul.rs): the identity document as text          *)
(***************************************************************************)
\* mutations of the Soul made in one run
MaxSoulOps == 3

\* str::find and str::rfind: the index of the first and of the last
\* occurrence of lit in s, 0 when there is none
find(s, lit) ==
  LET at == {i \in 1..(Len(s) + 1) : HasAt(s, i, lit)}
  IN  IF at = {} THEN 0 ELSE CHOOSE i \in at : \A j \in at : i <= j

rfind(s, lit) ==
  LET at == {i \in 1..(Len(s) + 1) : HasAt(s, i, lit)}
  IN  IF at = {} THEN 0 ELSE CHOOSE i \in at : \A j \in at : i >= j

\* str::trim
trim(s) ==
  LET keep == {i \in 1..Len(s) : s[i] \notin Whitespace}
  IN  IF keep = {} THEN <<>>
      ELSE SubSeq(s, CHOOSE i \in keep : \A j \in keep : i <= j,
                     CHOOSE i \in keep : \A j \in keep : i >= j)

\* str::lines: the text between line feeds, without a final empty line and
\* without the carriage return that ends a line
lines(s) ==
  LET nl == {i \in 1..Len(s) : s[i] = "\n"}
      starts == {a \in {1} \cup {i + 1 : i \in nl} : a <= Len(s)}
      line(a) ==
        LET ends == {i \in nl : i >= a}
            e == IF ends = {} THEN Len(s) ELSE (CHOOSE i \in ends : \A j \in ends : i <= j) - 1
        IN  IF e >= a /\ s[e] = "\r" THEN SubSeq(s, a, e - 1) ELSE SubSeq(s, a, e)
      nth(k) == CHOOSE a \in starts : Cardinality({b \in starts : b <= a}) = k
  IN  [k \in 1..Cardinality(starts) |-> line(nth(k))]

\* TrustLevel as u8
level_int(level) ==
  CASE level = "High" -> 3
    [] level = "Medium" -> 2
    [] level = "Low" -> 1

IdentityBinding(provider, id, trust_level) ==
  [provider |-> provider, id |-> id, trust_level |-> trust_level]

\* Soul::parse_binding_line
parse_binding_line(line) ==
  LET i1 == find(line, <<"*","*">>)
      rest == SubSeq(line, i1 + 2, Len(line))
      i2 == find(rest, <<"*","*",":">>)
      provider == trim(SubSeq(rest, 1, i2 - 1))
      val_part == trim(SubSeq(rest, i2 + 3, Len(rest)))
      idx == rfind(val_part, <<" ","(","L","e","v","e","l"," ">>)
      id == trim(SubSeq(val_part, 1, idx - 1))
      level_str == SubSeq(val_part, idx + 8, Len(val_part) - 1)
      trust_level == IF level_str \in {<<"3">>, <<"H","i","g","h">>} THEN "High" ELSE "Low"
  IN  IF i1 = 0 THEN None
      ELSE IF i2 = 0 THEN None
      ELSE IF idx = 0 THEN None
      ELSE Some(IdentityBinding(provider, id, trust_level))

\* the loop of Soul::load over the lines of the document
RECURSIVE ParseLines(_, _, _, _)
ParseLines(ls, k, in_bindings_section, bindings) ==
  IF k > Len(ls) THEN bindings
  ELSE LET trimmed == trim(ls[k])
       IN  IF StartsWith(trimmed, <<"#","#"," ","I","d","e","n","t","i","t","y"," ","B","i","n","d","i","n","g","s">>)
             THEN ParseLines(ls, k + 1, TRUE, bindings)
           ELSE IF StartsWith(trimmed, <<"#","#">>) /\ in_bindings_section
             THEN ParseLines(ls, k + 1, FALSE, bindings)
           ELSE IF in_bindings_section /\ StartsWith(trimmed, <<"-"," ","*","*">>)
                   /\ IsSome(parse_binding_line(trimmed))
             THEN ParseLines(ls, k + 1, in_bindings_section,
                             Append(bindings, Unwrap(parse_binding_line(trimmed))))
           ELSE ParseLines(ls, k + 1, in_bindings_section, bindings)

\* Soul::new
NewSoul == [bindings |-> <<>>, raw_content |-> <<>>]

\* Soul::load, with Soul::save for the file that is missing: the Soul and
\* the file afterwards
load(s, file) ==
  IF file = None
    THEN [soul |-> [s EXCEPT !.raw_content = <<"#"," ","S","o","u","l","\n","\n","#","#"," ","I","d","e","n","t","i","t","y"," ","B","i","n","d","i","n","g","s","\n","\n">>],
          file |-> Some(<<"#"," ","S","o","u","l","\n","\n","#","#"," ","I","d","e","n","t","i","t","y"," ","B","i","n","d","i","n","g","s","\n","\n">>)]
    ELSE [soul |-> [bindings |-> ParseLines(lines(Unwrap(file)), 1, FALSE, <<>>),
                    raw_content |-> Unwrap(file)],
          file |-> file]

\* the text with line inserted after the line of the first header, the
\* header line being ended first when the text ends with it
InsertAfterHeader(content, header, line) ==
  LET idx == find(content, header)
      insert_pos == idx + Len(header)
      tail == SubSeq(content, insert_pos, Len(content))
      next_nl == find(tail, <<"\n">>)
  IN  IF idx = 0 THEN content
      ELSE IF next_nl # 0
        THEN SubSeq(content, 1, insert_pos + next_nl - 1) \o line
             \o SubSeq(content, insert_pos + next_nl, Len(content))
      ELSE content \o <<"\n">> \o line

\* Soul::add_binding
add_binding(s, file, provider, id, level) ==
  IF \E i \in DOMAIN s.bindings :
       s.bindings[i].provider = provider /\ s.bindings[i].id = id
    THEN [soul |-> s, file |-> file]
  ELSE
    LET content == IF Contains(s.raw_content, <<"#","#"," ","I","d","e","n","t","i","t","y"," ","B","i","n","d","i","n","g","s">>)
                     THEN s.raw_content
                     ELSE s.raw_content \o <<"\n","\n","#","#"," ","I","d","e","n","t","i","t","y"," ","B","i","n","d","i","n","g","s","\n">>
        digit == CASE level_int(level) = 3 -> "3"
                   [] level_int(level) = 2 -> "2"
                   [] level_int(level) = 1 -> "1"
        line == <<"-"," ","*","*">> \o provider \o <<"*","*",":"," ">> \o id \o <<" ","(","L","e","v","e","l"," ">> \o <<digit>> \o <<")", "\n">>
        written == InsertAfterHeader(content, <<"#","#"," ","I","d","e","n","t","i","t","y"," ","B","i","n","d","i","n","g","s">>, line)
    IN  load([s EXCEPT !.raw_content = written], Some(written))

\* Soul::append_diary_entry at the minute timestamp
append_diary_entry(s, file, timestamp, content) ==
  LET line == <<"-"," ","*","*">> \o timestamp \o <<"*","*",":"," ">> \o trim(content) \o <<"\n">>
      file_content == IF Contains(s.raw_content, <<"#","#"," ","D","i","a","r","y">>)
                        THEN s.raw_content
                        ELSE s.raw_content \o <<"\n","\n","#","#"," ","D","i","a","r","y","\n">>
      written == InsertAfterHeader(file_content, <<"#","#"," ","D","i","a","r","y">>, line)
  IN  load([s EXCEPT !.raw_content = written], Some(written))

DiaryEntry(timestamp, content) == [timestamp |-> timestamp, content |-> content]

\* the loop of Soul::get_diary_entries over the lines of the document
RECURSIVE DiaryLines(_, _, _, _)
DiaryLines(ls, k, in_diary, entries) ==
  IF k > Len(ls) THEN entries
  ELSE LET trimmed == trim(ls[k])
           rest == SubSeq(trimmed, 5, Len(trimmed))
           at == find(rest, <<"*","*",":"," ">>)
       IN  IF StartsWith(trimmed, <<"#","#"," ","D","i","a","r","y">>)
             THEN DiaryLines(ls, k + 1, TRUE, entries)
           ELSE IF StartsWith(trimmed, <<"#","#">>) /\ in_diary
             THEN DiaryLines(ls, k + 1, FALSE, entries)
           ELSE IF in_diary /\ StartsWith(trimmed, <<"-"," ","*","*">>) /\ at # 0
             THEN DiaryLines(ls, k + 1, in_diary,
                    Append(entries, DiaryEntry(SubSeq(rest, 1, at - 1),
                                               SubSeq(rest, at + 4, Len(rest)))))
           ELSE DiaryLines(ls, k + 1, in_diary, entries)

\* Soul::max_trust_level
max_trust_level(s) ==
  IF s.bindings = <<>> THEN "Low"
  ELSE LET i == CHOOSE i \in DOMAIN s.bindings :
                  \A j \in DOMAIN s.bindings :
                    level_int(s.bindings[i].trust_level) >= level_int(s.bindings[j].trust_level)
       IN  s.bindings[i].trust_level

TrustLevels == {"Low", "Medium", "High"}
Providers == {<<"e","I","D","A","S">>, <<"G","o","o","g","l","e"," ","O","I","D","C">>}
\* ids as a form delivers them: plain, or with a space after the value
Ids == {<<"D","E","-","1","2","3">>, <<"1","2","3","4","5"," ">>}
\* SOUL.md before the first load: missing, written by the user without the
\* bindings section, or ending with the header of the section
SoulFiles == {None, Some(<<"#"," ","S","o","u","l","\n">>), Some(<<"#","#"," ","I","d","e","n","t","i","t","y"," ","B","i","n","d","i","n","g","s">>)}

SoulOp(op, provider, id, level) ==
  [op |-> op, provider |-> provider, id |-> id, level |-> level,
   before |-> soul.bindings]

SoulFrame ==
  /\ Len(soul_ops) < MaxSoulOps
  /\ UNCHANGED <<rlVars, roleVars, gwVars>>
  /\ UNCHANGED <<memVars, audit, gateVars, gkVars, mcpVars, scoped, vaultVars>>

\* the first thing done with a Soul: load
SoulLoad ==
  /\ soul_ops = <<>>
  /\ soul' = load(soul, soul_file).soul
  /\ soul_file' = load(soul, soul_file).file
  /\ soul_ops' = <<SoulOp("load", <<>>, <<>>, "Low")>>
  /\ diary_read' = diary_read
  /\ SoulFrame

AddBinding(provider, id, level) ==
  /\ soul_ops # <<>>
  /\ soul' = add_binding(soul, soul_file, provider, id, level).soul
  /\ soul_file' = add_binding(soul, soul_file, provider, id, level).file
  /\ soul_ops' = Append(soul_ops, SoulOp("add_binding", provider, id, level))
  /\ diary_read' = diary_read
  /\ SoulFrame

AppendDiaryEntry(content) ==
  /\ soul_ops # <<>>
  /\ soul' = append_diary_entry(soul, soul_file, <<"2","0","2","6","-","0","2","-","2","3"," ","1","0",":","0","0">>, content).soul
  /\ soul_file' = append_diary_entry(soul, soul_file, <<"2","0","2","6","-","0","2","-","2","3"," ","1","0",":","0","0">>, content).file
  /\ soul_ops' = Append(soul_ops, SoulOp("append_diary_entry", <<>>, content, "Low"))
  /\ diary_read' = diary_read
  /\ SoulFrame

\* Soul::get_diary_entries: the entries of the section in the order of the
\* document, reversed, and the first limit of them
get_diary_entries(s, limit) ==
  LET all == DiaryLines(lines(s.raw_content), 1, FALSE, <<>>)
      n == IF Len(all) < limit THEN Len(all) ELSE limit
  IN  [k \in 1..n |-> all[Len(all) + 1 - k]]

\* str::replace(from, ""): the text without the occurrences of from, found
\* from the left and not overlapping
RECURSIVE remove(_, _)
remove(s, from) ==
  LET i == find(s, from)
  IN  IF i = 0 THEN s
      ELSE SubSeq(s, 1, i - 1) \o remove(SubSeq(s, i + Len(from), Len(s)), from)

\* create_diary_entry strips the heading syntax of markdown
sanitize(content) == remove(remove(remove(content, <<"#"," ">>), <<"#","#"," ">>), <<"#","#","#"," ">>)

\* POST /api/soul/diary (create_diary_entry) by a user with the role given,
\* allowed tells what the rate limiter of the diary answered
CreateDiaryEntry(role, allowed, payload) ==
  /\ soul_ops # <<>>
  /\ role # "Child"
  /\ allowed
  /\ trim(payload) # <<>>
  /\ soul' = append_diary_entry(soul, soul_file, <<"2","0","2","6","-","0","2","-","2","3"," ","1","0",":","0","0">>, sanitize(trim(payload))).soul
  /\ soul_file' = append_diary_entry(soul, soul_file, <<"2","0","2","6","-","0","2","-","2","3"," ","1","0",":","0","0">>, sanitize(trim(payload))).file
  /\ soul_ops' = Append(soul_ops, SoulOp("create_diary_entry", <<>>, sanitize(trim(payload)), "Low"))
  /\ diary_read' = diary_read
  /\ SoulFrame

NoRead == [limit |-> 0, entries |-> <<>>]

\* a call of Soul::get_diary_entries; GET /api/soul/diary calls it with 50
GetDiaryEntries(limit) ==
  /\ soul_ops # <<>>
  /\ diary_read' = [limit |-> limit, entries |-> get_diary_entries(soul, limit)]
  /\ UNCHANGED <<soul, soul_file, soul_ops>>
  /\ UNCHANGED <<rlVars, roleVars, gwVars>>
  /\ UNCHANGED <<memVars, audit, gateVars, gkVars, mcpVars, scoped, vaultVars>>

\* what users write to the diary: a word, a word between spaces, and a
\* text of three lines with a heading
DiaryPayloads ==
  {<<"a","t","e">>, <<" ","r","a","n"," ">>,
   <<"x","\n","#","#","#","#","#"," "," "," ","I","d","e","n","t","i","t","y"," ","B","i","n","d","i","n","g","s","\n","-"," ","*","*","e","I","D","A","S","*","*",":"," ","D","E","-","1"," ","(","L","e","v","e","l"," ","3",")">>}

\* the Soul with its diary: bindings, entries written by the handler and
\* by other callers, and reads
DiaryNext ==
  \/ SoulLoad
  \/ \E provider \in Providers : AddBinding(provider, <<"D","E","-","1","2","3">>, "High")
  \/ AppendDiaryEntry(<<"L","i","n","k","e","d"," ","i","d","e","n","t","i","t","y">>)
  \/ \E role \in {"Child", "Senior", "Adult"}, allowed \in BOOLEAN, payload \in DiaryPayloads :
       CreateDiaryEntry(role, allowed, payload)
  \/ \E limit \in 1..MaxSoulOps : GetDiaryEntries(limit)

SoulIdle == soul = NewSoul /\ soul_file = None /\ soul_ops = <<>> /\ diary_read = NoRead

SoulInit ==
  /\ soul = NewSoul /\ soul_ops = <<>> /\ diary_read = NoRead
  /\ soul_file \in SoulFiles

SoulNext ==
  \/ SoulLoad
  \/ \E provider \in Providers, id \in Ids, level \in TrustLevels :
       AddBinding(provider, id, level)
  \/ AppendDiaryEntry(<<"L","i","n","k","e","d"," ","i","d","e","n","t","i","t","y">>)

(***************************************************************************)
(* OidcStateStore (src/src/gateway/mod.rs)                                 *)
(***************************************************************************)
\* generate and validate calls on one store
MaxOidcCalls == 3
\* the largest time to live of a store, and the ticks the clock runs
MaxTtl == 2
MaxOidcNow == 1

\* write!(token, "{byte:02x}") for every byte of buf
HexToken(buf) ==
  LET digit == <<"0","1","2","3","4","5","6","7","8","9","a","b","c","d","e","f">>
  IN  [k \in 1..(2 * Len(buf)) |->
         IF k % 2 = 1 THEN digit[(buf[(k + 1) \div 2] \div 16) + 1]
                      ELSE digit[(buf[k \div 2] % 16) + 1]]

\* the 32 bytes of the n-th draw of the generator: no two draws are equal
Draw(n) == [k \in 1..32 |-> IF k = 32 THEN n ELSE 0]

\* states.retain(|_, (_, ts)| now.duration_since(*ts) < self.ttl)
Purged(m, now, t) ==
  LET kept == {k \in DOMAIN m : now - m[k].ts < t}
  IN  [k \in kept |-> m[k]]

OidcCall(op, token, provider, result) ==
  [op |-> op, token |-> token, provider |-> provider, at |-> oidc_now, result |-> result]

OidcFrame ==
  /\ Len(oidc_calls) < MaxOidcCalls
  /\ UNCHANGED <<ttl, oidc_now, clientVars, familyVars>>
  /\ UNCHANGED <<rlVars, soulVars, roleVars>>
  /\ UNCHANGED <<memVars, audit, gateVars, gkVars, mcpVars, scoped, vaultVars>>

\* OidcStateStore::generate
Generate(provider_id) ==
  LET token == HexToken(Draw(1 + Cardinality({i \in DOMAIN oidc_calls : oidc_calls[i].op = "generate"})))
  IN  /\ states' = MapInsert(Purged(states, oidc_now, ttl), token,
                              [provider_id |-> provider_id, ts |-> oidc_now])
      /\ oidc_calls' = Append(oidc_calls, OidcCall("generate", token, provider_id, Some(token)))
      /\ OidcFrame

\* a validate that looks the token up and leaves it in the store
Validate_Lookup(state_token) ==
  LET live == Purged(states, oidc_now, ttl)
  IN  /\ states' = live
      /\ oidc_calls' = Append(oidc_calls, OidcCall("validate", state_token, <<>>,
            IF state_token \in DOMAIN live THEN Some(live[state_token].provider_id) ELSE None))
      /\ OidcFrame

\* OidcStateStore::validate
Validate(state_token) ==
  LET live == Purged(states, oidc_now, ttl)
  IN  /\ states' = MapRemove(live, state_token)
      /\ oidc_calls' = Append(oidc_calls, OidcCall("validate", state_token, <<>>,
            IF state_token \in DOMAIN live THEN Some(live[state_token].provider_id) ELSE None))
      /\ OidcFrame

\* time passes
OidcElapse ==
  /\ oidc_now < MaxOidcNow
  /\ oidc_now' = oidc_now + 1
  /\ UNCHANGED <<ttl, states, oidc_calls, clientVars, familyVars>>
  /\ UNCHANGED <<rlVars, soulVars, roleVars>>
  /\ UNCHANGED <<memVars, audit, gateVars, gkVars, mcpVars, scoped, vaultVars>>

\* the tokens a callback may carry: those drawn so far or later, and one
\* that the store never issues
CallbackTokens == {HexToken(Draw(n)) : n \in 1..2} \cup {HexToken(Draw(255))}

OidcProviders == {<<"g","o","o","g","l","e">>, <<"a","p","p","l","e">>}

\* OidcStateStore::new(ttl)
OidcNew(t) == ttl = t /\ states = <<>> /\ oidc_now = 0 /\ oidc_calls = <<>>

(***************************************************************************)
(* McpClient (src/src/mcp/transport.rs): JSON-RPC over the pipes of a     *)
(* server process                                                          *)
(***************************************************************************)
\* request calls on one client, and lines a server writes unasked
MaxRequests == 2
MaxUnasked == 1

Requests == 1..MaxRequests

\* the lines a server writes, by the members of their JSON object: a
\* response to the request id with a result, one with an error, a
\* notification (a method, no id), and a line that is no JSON object
Response(id) == [json |-> TRUE, jsonrpc |-> TRUE, id |-> Some(id), method |-> None,
                 result |-> Some(<<"result-of", id>>), error |-> None]
ErrorResponse(id) == [json |-> TRUE, jsonrpc |-> TRUE, id |-> Some(id), method |-> None,
                      result |-> None, error |-> Some(<<"error-of", id>>)]
Notification == [json |-> TRUE, jsonrpc |-> TRUE, id |-> None,
                 method |-> Some("notifications/progress"), result |-> None, error |-> None]
LogLine == [json |-> FALSE, jsonrpc |-> FALSE, id |-> None, method |-> None,
            result |-> None, error |-> None]

\* serde_json::from_str::<JsonRpcResponse>: the line must be a JSON object
\* with the member jsonrpc; id, result and error are None when absent, and
\* members the struct does not name are ignored
from_str(line) ==
  IF line.json /\ line.jsonrpc
    THEN Some([id |-> line.id, result |-> line.result, error |-> line.error])
    ELSE None

\* one turn of the loop of request over a line read: None when the line is
\* skipped, else what request returns
Answer(line, id) ==
  IF from_str(line) = None THEN None
  ELSE IF IsSome(Unwrap(from_str(line)).error)
    THEN Some([ok |-> FALSE, value |-> Unwrap(Unwrap(from_str(line)).error)])
  ELSE IF IsSome(Unwrap(from_str(line)).result)
    THEN Some([ok |-> TRUE, value |-> Unwrap(Unwrap(from_str(line)).result)])
  ELSE Some([ok |-> TRUE, value |-> "null"])

ClientFrame ==
  /\ UNCHANGED <<rlVars, soulVars, roleVars, oidcVars, familyVars>>
  /\ UNCHANGED <<memVars, audit, gateVars, gkVars, mcpVars, scoped, vaultVars>>

\* request: draw the id and write the request under the lock of stdin
RequestWrite(c) ==
  /\ rpc[c].pc = "idle"
  /\ next_id' = next_id + 1
  /\ stdin' = Append(stdin, next_id)
  /\ rpc' = [rpc EXCEPT ![c] = [pc |-> "written", id |-> next_id, ret |-> None]]
  /\ UNCHANGED <<stdout, stdout_lock, sent>>
  /\ ClientFrame

\* request: take the lock of stdout
RequestLock(c) ==
  /\ rpc[c].pc = "written"
  /\ stdout_lock = 0
  /\ stdout_lock' = c
  /\ rpc' = [rpc EXCEPT ![c] = [@ EXCEPT !.pc = "reading"]]
  /\ UNCHANGED <<next_id, stdin, stdout, sent>>
  /\ ClientFrame

\* request: read_line and one turn of the loop; on a return the lock is
\* released
RequestRead(c) ==
  /\ rpc[c].pc = "reading"
  /\ stdout # <<>>
  /\ stdout' = Tail(stdout)
  /\ LET a == Answer(Head(stdout), rpc[c].id)
     IN  IF a = None
           THEN UNCHANGED <<rpc, stdout_lock>>
           ELSE /\ rpc' = [rpc EXCEPT ![c] = [@ EXCEPT !.pc = "returned", !.ret = a]]
                /\ stdout_lock' = 0
  /\ UNCHANGED <<next_id, stdin, sent>>
  /\ ClientFrame

\* the server answers one of the requests it has read, in the order it
\* likes, with a result or with an error
ServerRespond(id, failed) ==
  /\ \E i \in DOMAIN stdin : stdin[i] = id
  /\ stdin' = SelectSeq(stdin, LAMBDA x : x # id)
  /\ LET line == IF failed THEN ErrorResponse(id) ELSE Response(id)
     IN  stdout' = Append(stdout, line) /\ sent' = Append(sent, line)
  /\ UNCHANGED <<next_id, stdout_lock, rpc>>
  /\ ClientFrame

\* the server writes a line nobody asked for
ServerWrites(line) ==
  /\ Cardinality({i \in DOMAIN sent : sent[i].id = None}) < MaxUnasked
  /\ stdout' = Append(stdout, line) /\ sent' = Append(sent, line)
  /\ UNCHANGED <<next_id, stdin, stdout_lock, rpc>>
  /\ ClientFrame

\* a client after connect: next_id counts from 1 and the handshake took
\* the first id
ClientInit ==
  /\ next_id = 2 /\ stdin = <<>> /\ stdout = <<>> /\ stdout_lock = 0 /\ sent = <<>>
  /\ rpc = [c \in Requests |-> [pc |-> "idle", id |-> 0, ret |-> None]]

ClientIdle == ClientInit

ClientNext ==
  \/ \E c \in Requests : RequestWrite(c)
  \/ \E c \in Requests : RequestLock(c)
  \/ \E c \in Requests : RequestRead(c)
  \/ \E id \in 2..(MaxRequests + 1), failed \in BOOLEAN : ServerRespond(id, failed)
  \/ \E line \in {Notification, LogLine} : ServerWrites(line)

GwIdle == OidcNew(0) /\ ClientIdle /\ family = <<>>

OidcNext ==
  \/ \E provider_id \in OidcProviders : Generate(provider_id)
  \/ \E state_token \in CallbackTokens : Validate(state_token)
  \/ OidcElapse

(***************************************************************************)
(* Roles (src/src/identity/roles.rs)                                       *)
(***************************************************************************)
\* bindings of the Soul a role is resolved from
MaxBindings == 2

RoleConfig(override_role, is_local, user_age) ==
  [override_role |-> override_role, is_local |-> is_local, user_age |-> user_age]

\* a resolution that looks at the trust level before the age
resolve_role_TrustFirst(trust, config) ==
  IF IsSome(config.override_role) THEN Unwrap(config.override_role)
  ELSE CASE trust = "High" -> IF config.is_local THEN "Root" ELSE "Adult"
         [] trust = "Medium" -> "Adult"
         [] trust = "Low" ->
              IF IsSome(config.user_age) /\ Unwrap(config.user_age) >= 65
                THEN "Senior" ELSE "Child"

\* resolve_role
resolve_role(trust, config) ==
  IF IsSome(config.override_role) THEN Unwrap(config.override_role)
  ELSE IF IsSome(config.user_age) /\ Unwrap(config.user_age) < 16 THEN "Child"
  ELSE CASE trust = "High" -> IF config.is_local THEN "Root" ELSE "Adult"
         [] trust = "Medium" -> "Adult"
         [] trust = "Low" ->
              IF IsSome(config.user_age) /\ Unwrap(config.user_age) >= 65
                THEN "Senior" ELSE "Child"

\* resolve_role_from_soul
resolve_role_from_soul(s, config) == resolve_role(max_trust_level(s), config)

Capabilities(shell, delegate, vault, mcp, browse, pim, audit_log, voice) ==
  [can_use_shell |-> shell, can_delegate |-> delegate, can_access_vault |-> vault,
   can_configure_mcp |-> mcp, can_browse_unrestricted |-> browse,
   can_manage_pim |-> pim, can_view_audit_log |-> audit_log, voice_first |-> voice]

\* capabilities in which an Adult may configure MCP
for_role_AdultConfigures(role) ==
  CASE role = "Root" -> Capabilities(TRUE, TRUE, TRUE, TRUE, TRUE, TRUE, TRUE, FALSE)
    [] role = "Adult" -> Capabilities(TRUE, TRUE, TRUE, TRUE, TRUE, TRUE, FALSE, FALSE)
    [] role = "Senior" -> Capabilities(FALSE, FALSE, FALSE, FALSE, FALSE, TRUE, FALSE, TRUE)
    [] role = "Child" -> Capabilities(FALSE, FALSE, FALSE, FALSE, FALSE, FALSE, FALSE, FALSE)

\* RoleCapabilities::for_role
for_role(role) ==
  CASE role = "Root" -> Capabilities(TRUE, TRUE, TRUE, TRUE, TRUE, TRUE, TRUE, FALSE)
    [] role = "Adult" -> Capabilities(TRUE, TRUE, TRUE, FALSE, TRUE, TRUE, FALSE, FALSE)
    [] role = "Senior" -> Capabilities(FALSE, FALSE, FALSE, FALSE, FALSE, TRUE, FALSE, TRUE)
    [] role = "Child" -> Capabilities(FALSE, FALSE, FALSE, FALSE, FALSE, FALSE, FALSE, FALSE)

Roles == {"Root", "Adult", "Senior", "Child"}
Ages == {None, Some(10), Some(15), Some(16), Some(64), Some(65)}
RoleConfigs ==
  {RoleConfig(o, l, a) : o \in {None} \cup {Some(r) : r \in Roles}, l \in BOOLEAN, a \in Ages}

\* Souls with up to MaxBindings bindings of any levels
BoundSouls ==
  LET binding(k, level) ==
        IdentityBinding(<<"e","I","D","A","S">>, <<"D","E","-">> \o [i \in 1..k |-> "1"], level)
  IN  {[bindings |-> [k \in 1..n |-> binding(k, f[k])], raw_content |-> <<>>] :
         n \in 0..MaxBindings, f \in [1..MaxBindings -> TrustLevels]}

NoRole == [config |-> RoleConfig(None, TRUE, None), role |-> None, capabilities |-> None]

\* resolve_role_from_soul on the Soul, then RoleCapabilities::for_role
ResolveRole ==
  /\ role_call.role = None
  /\ role_call' = [role_call EXCEPT
                     !.role = Some(resolve_role_from_soul(soul, role_call.config)),
                     !.capabilities = Some(for_role(resolve_role_from_soul(soul, role_call.config)))]
  /\ UNCHANGED <<rlVars, soulVars, gwVars>>
  /\ UNCHANGED <<memVars, audit, gateVars, gkVars, mcpVars, scoped, vaultVars>>

RolesInit ==
  /\ soul \in BoundSouls /\ soul_file = None /\ soul_ops = <<>> /\ diary_read = NoRead
  /\ role_call \in {[NoRole EXCEPT !.config = c] : c \in RoleConfigs}

(***************************************************************************)
(* Properties of the trust check of the Security Wrapper                   *)
(***************************************************************************)
\* tools of every class of the match, and tools of none: one whose name
\* only contains a prefix, one whose name only starts like a network tool
TrustTools ==
  {Tool_delegate, Tool_shell, <<"h","t","t","p","_","r","e","q","u","e","s","t">>, <<"b","r","o","w","s","e","r">>, <<"b","r","o","w","s","e","r","_","o","p","e","n">>,
   <<"c","a","l","e","n","d","a","r","_","a","d","d">>, <<"c","o","n","t","a","c","t","s","_","l","i","s","t">>, <<"n","o","t","e","s","_">>, <<"m","c","p",":","f","s">>,
   Tool_file_read, <<"m","y","_","n","o","t","e","s","_","x">>, <<"b","r","o","w","s","e","r","_","c","l","o","s","e">>}

\* policies with every combination of thresholds and current trust; no
\* allow-list and no confirmation, so that only the trust check decides
TrustPolicies ==
  [allowed_skills : {{}},
   current_trust : TrustLevels,
   confirmation_required : {{}},
   max_actions_per_hour : {MaxCeiling},
   required_trust_for_delegation : TrustLevels,
   required_trust_for_shell : TrustLevels,
   required_trust_for_mcp : TrustLevels,
   required_trust_for_vault : TrustLevels]

\* the policy a deployment has when it configures no threshold
DefaultThresholds(p) ==
  /\ p.required_trust_for_delegation = "High" /\ p.required_trust_for_shell = "Low"
  /\ p.required_trust_for_mcp = "Medium" /\ p.required_trust_for_vault = "High"

TrustCall(c, name) == WrapperExecute(c, name)

TrustNext == \E c \in Calls, name \in TrustTools : TrustCall(c, name)

\* the class of a tool name
ToolClass(name) ==
  CASE name = <<"d","e","l","e","g","a","t","e">> -> "delegation"
    [] name = <<"s","h","e","l","l">> -> "shell"
    [] name \in {<<"h","t","t","p","_","r","e","q","u","e","s","t">>, <<"b","r","o","w","s","e","r">>, <<"b","r","o","w","s","e","r","_","o","p","e","n">>} -> "network"
    [] \E pre \in {<<"c","a","l","e","n","d","a","r","_">>, <<"c","o","n","t","a","c","t","s","_">>, <<"n","o","t","e","s","_">>} :
         Len(name) >= Len(pre) /\ SubSeq(name, 1, Len(pre)) = pre -> "pim"
    [] Len(name) >= 4 /\ SubSeq(name, 1, 4) = <<"m","c","p",":">> -> "mcp"
    [] OTHER -> "none"

\* the threshold of a class: network tools share the one of MCP, PIM tools
\* the one of the vault
ClassThreshold(p, class) ==
  CASE class = "delegation" -> p.required_trust_for_delegation
    [] class = "shell" -> p.required_trust_for_shell
    [] class \in {"network", "mcp"} -> p.required_trust_for_mcp
    [] class = "pim" -> p.required_trust_for_vault

\* the threshold of a class when the deployment configures none
DefaultThreshold(class) ==
  CASE class = "delegation" -> "High"
    [] class = "shell" -> "Low"
    [] class \in {"network", "mcp"} -> "Medium"
    [] class = "pim" -> "High"

\* C31: the trust check takes the threshold of the class of the tool name
\* (the default one under the default policy): a tool of a class is run
\* only if the current trust is at least that threshold and is blocked by
\* the trust check otherwise; a tool of no class is never blocked by it
C31_ThresholdByToolName ==
  \A c \in Calls : wrap[c].pc # "idle" =>
    LET class == ToolClass(wrap[c].tool)
    IN  IF class = "none"
          THEN wrap[c].verdict = "executed"
          ELSE /\ wrap[c].verdict = "executed"
                    <=> TrustRank(policy.current_trust) >= TrustRank(ClassThreshold(policy, class))
               /\ wrap[c].verdict # "executed" => wrap[c].verdict = "trust_denied"
               /\ DefaultThresholds(policy) => ClassThreshold(policy, class) = DefaultThreshold(class)

\* under the default thresholds and trust Medium a network tool has run and
\* a PIM tool was blocked
C31_Witness ==
  /\ DefaultThresholds(policy) /\ policy.current_trust = "Medium"
  /\ wrap[1].tool = <<"b","r","o","w","s","e","r","_","o","p","e","n">> /\ wrap[1].verdict = "executed"
  /\ wrap[2].tool = <<"c","a","l","e","n","d","a","r","_","a","d","d">> /\ wrap[2].verdict = "trust_denied"

(***************************************************************************)
(* Properties of the Security Wrapper and the Confirmation Gate            *)
(***************************************************************************)
TrustOk(p, name) ==
  ~IsSome(RequiredTrust(p, name)) \/ check_trust(p, Unwrap(RequiredTrust(p, name)))

IsPrefix(s, t) == Len(s) <= Len(t) /\ SubSeq(t, 1, Len(s)) = s

Ran(steps, step) == \E i \in DOMAIN steps : steps[i] = step

\* the request of call c has returned true
Approved(c) == req[c].pc = "returned" /\ req[c].ret

\* C3: execute checks the skill allow-list, then the trust level, then the
\* need for confirmation, and runs the inner tool only after all of them:
\* a finished call ran the inner tool iff the skill is allowed, the trust
\* check succeeded and either no confirmation is required or a gate is
\* attached and its request returned true; with confirmation required and
\* no gate attached the call is denied; gate.request is called only by
\* calls that passed the skill and the trust check
C3_WrapperChecks ==
  \A c \in Calls :
    LET name == wrap[c].tool
        steps == wrap[c].steps
        skill == is_skill_allowed(policy, name)
        trust == TrustOk(policy, name)
        needs == requires_confirmation(policy, name, "execute")
    IN  /\ wrap[c].pc # "idle" =>
             /\ \/ IsPrefix(steps, <<"skill", "trust", "confirmation", "request", "inner">>)
                \/ IsPrefix(steps, <<"skill", "trust", "confirmation", "inner">>)
             /\ Ran(steps, "request") <=> req[c].pc # "none"
             /\ req[c].pc # "none" => skill /\ trust /\ needs /\ confirm_gate
        /\ wrap[c].pc = "done" =>
             /\ Ran(steps, "inner") <=>
                  skill /\ trust /\ (~needs \/ (confirm_gate /\ Approved(c)))
             /\ (wrap[c].verdict = "executed") <=> Ran(steps, "inner")
             /\ (skill /\ trust /\ needs /\ ~confirm_gate) => wrap[c].verdict = "no_channel"

\* a call ran the inner tool after its request was approved
C3_Witness ==
  \E c \in Calls :
    /\ wrap[c].pc = "done" /\ Approved(c)
    /\ wrap[c].steps = <<"skill", "trust", "confirmation", "request", "inner">>

\* C4: a request returns true iff a resolve delivered approved=true to it
\* before its timeout elapsed; it returns false when approved=false was
\* delivered and when the timeout elapsed with nothing delivered
C4_RequestResult ==
  \A c \in Calls :
    req[c].pc = "returned" =>
      /\ req[c].ret <=> req[c].value = Some(TRUE)
      /\ req[c].result = "Elapsed" <=> req[c].value = None
      /\ req[c].result = "Elapsed" => ~req[c].ret

\* one request has returned true and another has timed out
C4_Witness ==
  \E c, d \in Calls :
    /\ req[c].pc = "returned" /\ req[c].ret
    /\ req[d].pc = "returned" /\ req[d].result = "Elapsed"

\* C5: at most one resolve call returns true for an id, and a resolve that
\* returns true is the one that consumed the id
C5_ConsumedOnce ==
  /\ \A id \in ResolveIds : granted[id] <= 1
  /\ (answer.status = "OK" /\ answer.resolved) => granted[answer.id] = 1

\* an id was consumed and a later resolve of it returned false
C5_Witness ==
  /\ answer.status = "OK" /\ ~answer.resolved
  /\ granted[answer.id] = 1

\* the requests that have inserted their entry and have not returned
InFlight == {c \in Calls : req[c].pc \in {"inserted", "awaiting", "woke", "cancelled"}}

C7_CancelledEntryPurged ==
  \A c \in Calls : (req[c].pc = "cancelled") ~> (req[c].id \notin DOMAIN pending)

\* C8: a request whose timeout expired unresolved has returned false, its
\* id is gone from the table, and the audit log records the denial
C8_TimeoutDenialAudited ==
  \A c \in Calls :
    (req[c].pc = "returned" /\ req[c].result = "Elapsed") =>
      /\ ~req[c].ret
      /\ req[c].id \notin DOMAIN pending
      /\ \E i \in DOMAIN audit :
           Contains(audit[i].description, req[c].id) /\ ~audit[i].approved

\* C9: a wrapped invocation that reaches the inner tool has run the
\* gatekeeper's step after its checks and before the inner tool
C9_GatekeeperBeforeInner ==
  \A c \in Calls :
    Ran(wrap[c].steps, "inner") =>
      \E i, j \in DOMAIN wrap[c].steps :
        /\ wrap[c].steps[i] = "gatekeeper" /\ wrap[c].steps[j] = "inner"
        /\ i < j

(***************************************************************************)
(* Properties of concurrent confirmation requests                          *)
(***************************************************************************)
\* the step is a resolve_confirmation call
Resolving == resolves' = resolves + 1

\* the step leaves alone every request with another id and its table entry
OthersUntouched(id) ==
  /\ \A d \in Calls : req[d].id # id => (req'[d] = req[d] /\ wrap'[d] = wrap[d])
  /\ \A j \in DOMAIN pending :
       j # id => (j \in DOMAIN pending' /\ pending'[j] = pending[j])

\* C27: resolving an id that is not pending returns false without an error
\* and changes nothing; a resolve, and the wake-up and clean-up of a
\* request, leave every request with another id and its entry as they
\* were; and what a request returns is decided by the decision sent for
\* its own id, false when none was
C27_RequestsIndependent ==
  [][/\ (Resolving /\ answer'.status = "OK" /\ answer'.id \notin DOMAIN pending) =>
          /\ ~answer'.resolved
          /\ pending' = pending /\ req' = req /\ wrap' = wrap /\ audit' = audit
     /\ Resolving => OthersUntouched(answer'.id)
     /\ \A c \in Calls :
          (req[c].pc \in {"awaiting", "woke"} /\ req'[c] # req[c] /\ ~Resolving) =>
            OthersUntouched(req[c].id)
     /\ \A d \in Calls :
          /\ req'[d].value # req[d].value => (Resolving /\ answer'.id = req[d].id)
          /\ (req'[d].pc = "returned" /\ req[d].pc # "returned") =>
               (req'[d].ret <=> (req[d].result = "Value" /\ req[d].value = Some(TRUE)))]_vars

\* two requests are pending at once, after a resolve of an id that was not
\* pending returned false
C27_Witness ==
  /\ Cardinality(DOMAIN pending) = 2
  /\ answer.status = "OK" /\ ~answer.resolved
  /\ \E c, d \in Calls : c # d /\ req[c].pc = "awaiting" /\ req[d].pc = "awaiting"

\* resolve(id, approved) has returned true: resolve_confirmation wrote the
\* event of the decision
ResolvedAs(id, approved) ==
  \E i \in DOMAIN audit : audit[i] = DecisionEvent(id, approved)

\* C37: whenever resolve(id, approved) returned true, the request that
\* issued the id returns approved, however resolve and the timeout are
\* interleaved
C37_ResolutionMatchesOutcome ==
  \A c \in Calls :
    req[c].pc = "returned" =>
      \A approved \in BOOLEAN : ResolvedAs(req[c].id, approved) => req[c].ret = approved

\* the step publishes a request
Publishing == notified' # notified

\* what holds of every publication: it is the only one of its id, the id
\* was inserted before, every subscriber receives the request once, with
\* its id and tool name, and the request goes on to await its response
PublishedOnce(id) ==
  /\ notified' = Append(notified, id)
  /\ \A i \in DOMAIN notified : notified[i] # id
  /\ \E c \in Calls :
       /\ req[c].id = id /\ req[c].pc = "inserted" /\ req'[c].pc = "awaiting"
       /\ req'[c].value = req[c].value
       /\ DOMAIN inbox' = DOMAIN inbox
       /\ \A s \in DOMAIN inbox :
            inbox'[s] = Append(inbox[s], [id |-> id, tool_name |-> wrap[c].tool])
  /\ pending' = pending

\* C30 as stated: request publishes once, to every subscriber, and at the
\* publication the id is in the pending table
C30_PendingWhenPublished ==
  [][Publishing =>
       /\ PublishedOnce(notified'[Len(notified')])
       /\ notified'[Len(notified')] \in DOMAIN pending]_vars

\* C30 amended: request publishes once, to every subscriber, after it has
\* inserted the id: at the publication the id is in the pending table
\* unless a resolve has consumed it since
C30_InsertedWhenPublished ==
  [][Publishing =>
       /\ PublishedOnce(notified'[Len(notified')])
       /\ \/ notified'[Len(notified')] \in DOMAIN pending
          \/ granted[notified'[Len(notified')]] > 0]_vars

\* two requests, each published to the two subscribers, both pending
C30_Witness ==
  /\ Len(inbox) = 2 /\ Len(inbox[1]) = 2 /\ Len(inbox[2]) = 2
  /\ Len(notified) = 2
  /\ \A i \in DOMAIN notified : notified[i] \in DOMAIN pending

(***************************************************************************)
(* Properties of the Gatekeeper                                            *)
(***************************************************************************)
\* the calls before call i that were let through and are still in the
\* window at the time of call i
InWindowBefore(i) ==
  {j \in 1..(i - 1) : gk_calls[j].ok /\ gk_calls[i].time - gk_calls[j].time < WindowLen}

\* C10: gate_request returns Ok iff record_action returned true; each call
\* hands exactly one event to the audit logger, a PolicyViolation (risk
\* high, approved=false, allowed=false) with an Err naming the tool when
\* denied and a SecurityEvent (risk low, approved=true, allowed=true) when
\* allowed, and the log holds the events whose write succeeded; with a
\* ceiling of N a call is let through iff fewer than N calls were let
\* through before it in the window, so a ceiling of 0 denies every call
C10_GateRequest ==
  /\ Len(emitted) = Len(gk_calls)
  /\ Len(audit) = Cardinality({i \in DOMAIN gk_calls : gk_calls[i].written})
  /\ \A i \in DOMAIN gk_calls :
       LET r == gk_calls[i]
       IN  /\ r.ok <=> r.allowed
           /\ r.events = 1
           /\ r.ok => /\ r.err = <<>>
                      /\ emitted[i] = AuditEvent("SecurityEvent", GateAction(r.tool),
                                                 "low", TRUE, TRUE)
           /\ ~r.ok => /\ Contains(r.err, r.tool)
                       /\ emitted[i] = AuditEvent("PolicyViolation", GateAction(r.tool),
                                                  "high", FALSE, FALSE)
           /\ r.ok <=> Cardinality(InWindowBefore(i)) < policy.max_actions_per_hour
           /\ r.written => \E k \in DOMAIN audit : audit[k] = emitted[i]

\* with a ceiling of 2, two calls in one window were let through and the
\* third was denied
C10_Witness ==
  /\ policy.max_actions_per_hour = 2
  /\ Len(gk_calls) = 3
  /\ gk_calls[1].ok /\ gk_calls[2].ok /\ ~gk_calls[3].ok
  /\ gk_calls[3].time - gk_calls[1].time < WindowLen

(***************************************************************************)
(* Properties of the audit writes                                          *)
(***************************************************************************)
\* a store whose audit write succeeds or fails, of content that the
\* scanner vaults or lets through
AuditedStore ==
  \E content \in {T_Pin, <<"a","s","k","-","m","e"," ","l","a","t","e","r">>},
     fault \in {"none", "audit"} :
    /\ IsSome(scan(content)) \/ fault = "none"
    /\ SovereignStore(<<"n","o","t","e","1">>, content, Core, scan(content), fault)

\* stores and gate calls with audit writes that succeed or fail
AuditNext ==
  \/ AuditedStore
  \/ \E tool_name \in GateTools, fails \in BOOLEAN : GateCall(tool_name, fails)

\* what the inner backend holds after a store, told from the arguments and
\* the scan alone
StoredValue(key, content, category) ==
  IF IsSome(scan(content))
    THEN InnerStore(InnerStore(inner, IndexKey(Uuid(uuids + 1)),
                               Description(key, Unwrap(scan(content))), Custom(L_vault)),
                    key, Pointer(Unwrap(scan(content))), category)
    ELSE InnerStore(inner, key, content, category)

\* C28: the result of gate_request is told by the policy, the window and
\* the clock alone, and the result and the stored value of a Sovereign
\* store by its arguments alone: they are the same whether the audit write
\* succeeds, fails, or no logger is attached
C28_AuditFailuresNeverSurface ==
  [][/\ gk_calls' # gk_calls =>
          LET c == gk_calls'[Len(gk_calls')]
              r == record_action(policy, window, clock)
          IN  /\ c.ok = r.ok
              /\ c.err = GateOutcome(c.tool, r.ok).err
              /\ window' = r.window
     /\ stores' # stores =>
          /\ last'.result = "Ok"
          /\ inner' = StoredValue(last'.key, last'.content, last'.category)]_vars

\* a store whose audit write failed has put the pointer in place, and a
\* gate call whose audit write failed was allowed
C28_Witness ==
  /\ last.fault = "audit" /\ last.result = "Ok"
  /\ last.key \in DOMAIN inner /\ inner[last.key].content = Pointer(Unwrap(scan(last.content)))
  /\ \E i \in DOMAIN gk_calls : gk_calls[i].ok /\ ~gk_calls[i].written
  /\ gk_logger = "attached"

(***************************************************************************)
(* Properties of the MCP bridge                                            *)
(***************************************************************************)
\* C11: every McpTool::execute makes exactly one gate_request call of its
\* own for its tool, so it records at most one action against the rate
\* limit; the call reaches the MCP server iff that gate_request returned
\* Ok; and the registry holds the MCP tools without a SecurityWrapper
C11_McpGatedOnce ==
  /\ \A i \in DOMAIN mcp_calls :
       LET m == mcp_calls[i]
       IN  /\ m.gate \in DOMAIN gk_calls
           /\ gk_calls[m.gate].tool = m.tool
           /\ m.forwarded <=> gk_calls[m.gate].ok
           /\ m.recorded = IF gk_calls[m.gate].ok THEN 1 ELSE 0
           /\ ~m.forwarded => ~m.success /\ Contains(m.error, gk_calls[m.gate].err)
           /\ \A j \in DOMAIN mcp_calls : j # i => mcp_calls[j].gate # m.gate
  /\ server_calls = [k \in 1..Len(server_calls) |->
                       SelectSeq(mcp_calls, LAMBDA m : m.forwarded)[k].tool]
  /\ Len(server_calls) = Len(SelectSeq(mcp_calls, LAMBDA m : m.forwarded))
  /\ \A name \in McpTools : Registry[name] = "McpTool"
  /\ \A name \in Tools : Registry[name] = "SecurityWrapper"

\* one MCP call was forwarded to the server and a later one was refused by
\* the gate
C11_Witness ==
  \E i, j \in DOMAIN mcp_calls :
    /\ i < j
    /\ mcp_calls[i].forwarded /\ ~mcp_calls[j].forwarded
    /\ Len(server_calls) = 1

(***************************************************************************)
(* Properties of the scoped wrapper                                        *)
(***************************************************************************)
\* the stored key k lies in the scope of the caller or in the shared scope
OwnOrShared(user_scope, k) ==
  \/ IsPrefix(user_scope \o <<":">>, k)
  \/ IsPrefix(<<"s","h","a","r","e","d",":">>, k)

\* C12: every entry that get, list or recall of the wrapper of user U
\* returns is an entry of the inner backend whose stored key begins with
\* `user:<U>:` or with `shared:`, whatever the inner backend holds
C12_ScopedIsolation ==
  scoped.op \in {"get", "list", "recall"} =>
    \A i \in DOMAIN scoped.out :
      /\ scoped.out[i].stored \in DOMAIN scoped.before
      /\ scoped.out[i].content = scoped.before[scoped.out[i].stored].content
      /\ OwnOrShared(scoped.scope, scoped.out[i].stored)

\* a read that returned entries while the backend also held an entry of the
\* other member
C12_Witness ==
  /\ scoped.op \in {"list", "recall"}
  /\ scoped.scope = <<"u","s","e","r",":","a","l">>
  /\ <<"u","s","e","r",":","a","l","f",":","n">> \in DOMAIN scoped.before
  /\ scoped.out # <<>>

\* C13: an operation of the wrapper of user U with key k changes the inner
\* backend at most at the key `<scope of U>:k`: store leaves the entry
\* there, forget leaves none there and answers whether one was there (so
\* false when k exists only as a shared entry), and the reads change nothing
C13_OwnScopeOnly ==
  scoped.op # "none" =>
    LET own == scoped_key(scoped.scope, scoped.key) IN
      /\ \A k \in (DOMAIN scoped.before \cup DOMAIN inner) \ {own} :
           /\ k \in DOMAIN scoped.before /\ k \in DOMAIN inner
           /\ inner[k] = scoped.before[k]
      /\ scoped.op = "store" => own \in DOMAIN inner
      /\ scoped.op = "forget" =>
           /\ own \notin DOMAIN inner
           /\ scoped.ok = (own \in DOMAIN scoped.before)
      /\ scoped.op \in {"get", "list", "recall"} => inner = scoped.before

\* a forget of a key that exists only as a shared entry
C13_Witness ==
  /\ scoped.op = "forget"
  /\ shared_key(scoped.key) \in DOMAIN scoped.before
  /\ scoped_key(scoped.scope, scoped.key) \notin DOMAIN scoped.before
  /\ ~scoped.ok
  /\ shared_key(scoped.key) \in DOMAIN inner

\* the entry stored under k before the last operation, as get returns it
Held(k) == <<[stored |-> k, key |-> k, content |-> scoped.before[k].content]>>

\* C29: get(key) for the member with scope user:<U> returns the entry held
\* under user:<U>:<key> when there is one, else the entry held under
\* shared:<key> when there is one, else none; it never fails and changes
\* nothing
C29_PrivateWins ==
  scoped.op = "get" =>
    LET private == scoped.scope \o <<":">> \o scoped.key
        shared == <<"s","h","a","r","e","d",":">> \o scoped.key
    IN  /\ scoped.ok
        /\ inner = scoped.before
        /\ private \in DOMAIN scoped.before => scoped.out = Held(private)
        /\ (private \notin DOMAIN scoped.before /\ shared \in DOMAIN scoped.before)
             => scoped.out = Held(shared)
        /\ (private \notin DOMAIN scoped.before /\ shared \notin DOMAIN scoped.before)
             => scoped.out = <<>>

\* a get of a key held both privately and shared, with different contents,
\* that returned the private entry
C29_Witness ==
  /\ scoped.op = "get"
  /\ scoped_key(scoped.scope, scoped.key) \in DOMAIN scoped.before
  /\ shared_key(scoped.key) \in DOMAIN scoped.before
  /\ scoped.before[scoped_key(scoped.scope, scoped.key)].content
       # scoped.before[shared_key(scoped.key)].content
  /\ Len(scoped.out) = 1
  /\ scoped.out[1].stored = scoped_key(scoped.scope, scoped.key)

\* C34: list and recall of the wrapper of user U return only entries stored
\* under `user:<U>:` or `shared:`; an own entry is shown under its key
\* without the prefix and a shared entry under `[shared] ` and its key
\* without the prefix
C34_SharedTaggedInListAndRecall ==
  scoped.op \in {"list", "recall"} =>
    \A i \in DOMAIN scoped.out :
      LET e == scoped.out[i]
          own == scoped.scope \o <<":">>
      IN  /\ e.stored \in DOMAIN scoped.before
          /\ OwnOrShared(scoped.scope, e.stored)
          /\ IsPrefix(own, e.stored) => own \o e.key = e.stored
          /\ ~IsPrefix(own, e.stored) =>
               /\ IsPrefix(<<"[","s","h","a","r","e","d","]"," ">>, e.key)
               /\ <<"s","h","a","r","e","d",":">> \o SubSeq(e.key, 10, Len(e.key)) = e.stored

\* list and recall of the wrapper of user U return only entries stored
\* under `user:<U>:` or `shared:`. recall shows an own entry under its key
\* without the prefix and a shared entry under `[shared] ` and its key
\* without the prefix; list shows every entry under the key it is stored
\* under, so that shared entries are told by the prefix `shared:`
C34_SharedTaggedInRecall ==
  scoped.op \in {"list", "recall"} =>
    \A i \in DOMAIN scoped.out :
      LET e == scoped.out[i]
          own == scoped.scope \o <<":">>
      IN  /\ e.stored \in DOMAIN scoped.before
          /\ OwnOrShared(scoped.scope, e.stored)
          /\ scoped.op = "list" => e.key = e.stored
          /\ (scoped.op = "recall" /\ IsPrefix(own, e.stored)) => own \o e.key = e.stored
          /\ (scoped.op = "recall" /\ ~IsPrefix(own, e.stored)) =>
               /\ IsPrefix(<<"[","s","h","a","r","e","d","]"," ">>, e.key)
               /\ <<"s","h","a","r","e","d",":">> \o SubSeq(e.key, 10, Len(e.key)) = e.stored

\* a list that returned an own and a shared entry, each under the key it
\* is stored under, while the backend held an entry of the other member
C34_Witness ==
  /\ scoped.op = "list"
  /\ \E i, j \in DOMAIN scoped.out :
       /\ IsPrefix(scoped.scope \o <<":">>, scoped.out[i].key)
       /\ IsPrefix(<<"s","h","a","r","e","d",":">>, scoped.out[j].key)
  /\ \E k \in DOMAIN scoped.before : ~OwnOrShared(scoped.scope, k)

(***************************************************************************)
(* Properties of the memory stack                                          *)
(***************************************************************************)
\* C14: after member U stored scanner-matching content under key k through
\* the memory stack, the inner backend holds the opaque pointer under the
\* key `user:<U>:k` and the store wrote the plaintext under no key
C14_PointerUnderScope ==
  (StoredOutsideVault /\ IsSome(ScanOf[last.content])) =>
    /\ \E k \in Keys :
         /\ scoped_key(scoped.scope, k) \in DOMAIN inner
         /\ last.key = scoped_key(scoped.scope, k)
         /\ inner[last.key].content = Pointer(Unwrap(ScanOf[last.content]))
    /\ \A k \in last.written : inner[k].content # last.content

(***************************************************************************)
(* Properties of the Hybrid Vault                                          *)
(***************************************************************************)
\* the step just taken is a successful encrypt_to_vault
Encrypting == stores' = stores + 1 /\ vault_op'.op = "encrypt" /\ vault_op'.result.ok

\* the step wrote the envelope <id>.vault, the metadata <id>.json and, to the
\* memory backend, the one entry vault:<id> with the description and the
\* category Custom("vault")
OneIndexEntry ==
  LET id == vault_op'.id
      index_key == <<"v","a","u","l","t",":">> \o id
  IN  /\ DOMAIN envelopes' \ DOMAIN envelopes = {id}
      /\ DOMAIN meta_dir' \ DOMAIN meta_dir = {id}
      /\ DOMAIN inner' = DOMAIN inner \cup {index_key}
      /\ inner'[index_key] = [content |-> vault_op'.description,
                              category |-> [kind |-> "Custom", name |-> <<"v","a","u","l","t">>]]
      /\ \A k \in DOMAIN inner \ {index_key} : inner'[k] = inner[k]

\* C18 as stated: a successful encrypt_to_vault writes exactly the index
\* entry to the memory backend, and afterwards no memory entry contains the
\* vaulted plaintext
C18_NoEntryHoldsPlaintext ==
  [][Encrypting =>
       /\ OneIndexEntry
       /\ vault_op'.plaintext # <<>> =>
            \A k \in DOMAIN inner' : ~Contains(inner'[k].content, vault_op'.plaintext)]_vars

\* C18 with the description taken into account: a successful
\* encrypt_to_vault writes exactly the index entry, whose content is the
\* description, so the entry contains the plaintext only when the
\* description the caller gave contains it
C18_IndexIsDescription ==
  [][Encrypting =>
       /\ OneIndexEntry
       /\ \A k \in DOMAIN inner' \ DOMAIN inner :
            Contains(inner'[k].content, vault_op'.plaintext) =>
              Contains(vault_op'.description, vault_op'.plaintext)]_vars

\* a plaintext is vaulted and the memory backend holds only its description
C18_Witness ==
  /\ vault_op.op = "encrypt" /\ vault_op.result.ok
  /\ vault_op.plaintext = <<"k">>
  /\ vault_op.id \in DOMAIN envelopes
  /\ DOMAIN inner = {<<"v","a","u","l","t",":">> \o vault_op.id}
  /\ \A k \in DOMAIN inner : inner[k].content = <<"n","o","t","e">>

\* the last operation was a decrypt_from_vault of an envelope that exists
Decrypted == vault_op.op = "decrypt" /\ vault_op.id \in DOMAIN envelopes

\* C19: with the admin keys in place, decrypt_from_vault(id) of an envelope
\* that encrypt_to_vault wrote for plaintext X and nobody altered returns
\* exactly X; the envelope is the text hybrid_encrypt produced and the
\* result the one of hybrid_decrypt
C19_RoundTrip ==
  (Decrypted /\ ~envelopes[vault_op.id].altered) =>
    vault_op.result = Ok(vault_dir[vault_op.id])

\* the round trip of a plaintext of two characters
C19_Witness ==
  /\ Decrypted
  /\ ~envelopes[vault_op.id].altered
  /\ vault_op.result = Ok(<<"o","k">>)

\* C20 as stated: decrypt_from_vault of an envelope of which one character
\* was altered fails, with an error of kind TamperedData or MalformedEnvelope
C20_TamperedOrMalformed ==
  (Decrypted /\ envelopes[vault_op.id].altered) =>
    /\ ~vault_op.result.ok
    /\ ErrorKind(vault_op.result.error) \in {"TamperedData", "MalformedEnvelope"}

\* C20 with the failure of the key unwrap: decrypt_from_vault of an altered
\* envelope never returns a plaintext; it fails with TamperedData or
\* MalformedEnvelope, or with WrappedKeyRejected when the alteration lies in
\* the wrapped key
C20_AlteredEnvelopeRejected ==
  (Decrypted /\ envelopes[vault_op.id].altered) =>
    /\ ~vault_op.result.ok
    /\ ErrorKind(vault_op.result.error)
         \in {"TamperedData", "MalformedEnvelope", "WrappedKeyRejected"}

\* an alteration that the authentication tag catches
C20_Witness ==
  /\ Decrypted
  /\ envelopes[vault_op.id].altered
  /\ ~vault_op.result.ok
  /\ ErrorKind(vault_op.result.error) = "TamperedData"

(***************************************************************************)
(* Properties of the rate limiter                                          *)
(***************************************************************************)
\* the earlier calls for the key of call i that lie within one window of it
InWindow(i) ==
  {j \in 1..(i - 1) : /\ allows[j].key = allows[i].key
                      /\ allows[j].at > allows[i].at - MaxWindow}

\* C21: rate-limit monotonicity: with limit k, a call to allow(key) that
\* has exactly k earlier calls for the same key within one window, all of
\* which returned true, returns false
C21_RateLimitMonotone ==
  \A i \in DOMAIN allows :
    (/\ Cardinality(InWindow(i)) = limit_per_window
     /\ \A j \in InWindow(i) : allows[j].ok)
      => ~allows[i].ok

\* the calls up to call i for its key that were allowed within one window
\* before it
AllowedInWindow(i) == {j \in InWindow(i) : allows[j].ok}

\* C36: with a limit L > 0, a call is allowed exactly when fewer than L
\* calls for its key were allowed within the window before it: at most L
\* calls of a key are allowed within a window, calls of other keys and
\* denied calls take nothing from the allowance, and a key is allowed
\* again once its allowed calls have left the window
C36_SlidingWindowBound ==
  limit_per_window > 0 =>
    \A i \in DOMAIN allows :
      /\ allows[i].ok <=> Cardinality(AllowedInWindow(i)) < limit_per_window
      /\ Cardinality(AllowedInWindow(i)) <= limit_per_window

(***************************************************************************)
(* Properties of the Soul                                                  *)
(***************************************************************************)
LastSoulOp == soul_ops[Len(soul_ops)]

\* the last operation was an add_binding of a pair the Soul did not hold
AddedNew ==
  /\ soul_ops # <<>>
  /\ LastSoulOp.op = "add_binding"
  /\ \A i \in DOMAIN LastSoulOp.before :
       ~(/\ LastSoulOp.before[i].provider = LastSoulOp.provider
         /\ LastSoulOp.before[i].id = LastSoulOp.id)

\* a Soul freshly loaded from the file
FreshSoul == load(NewSoul, soul_file).soul

Holds(s, provider, id, level) ==
  \E i \in DOMAIN s.bindings : s.bindings[i] = IdentityBinding(provider, id, level)

\* C22: after add_binding(provider, id, L) on a Soul without a binding for
\* (provider, id), the Soul and a Soul freshly loaded from the file hold
\* the binding (provider, id) with trust level L, and the freshly loaded
\* Soul has the same bindings in the same order
C22_LevelSurvivesReparse ==
  AddedNew =>
    /\ Holds(soul, LastSoulOp.provider, LastSoulOp.id, LastSoulOp.level)
    /\ Holds(FreshSoul, LastSoulOp.provider, LastSoulOp.id, LastSoulOp.level)
    /\ FreshSoul.bindings = soul.bindings

\* the (provider, id) pairs add_binding has been called with
AddedPairs ==
  {<<soul_ops[i].provider, soul_ops[i].id>> :
     i \in {j \in DOMAIN soul_ops : soul_ops[j].op = "add_binding"}}

\* C23: adding a pair that is already bound leaves the number of bindings
\* as it was, and the number of bindings equals the number of distinct
\* (provider, id) pairs added
C23_DuplicatesAreNoOps ==
  /\ (soul_ops # <<>> /\ LastSoulOp.op = "add_binding" /\ ~AddedNew)
       => Len(soul.bindings) = Len(LastSoulOp.before)
  /\ Len(soul.bindings) = Cardinality(AddedPairs)

\* C24: once loaded, the document in memory and on disk contains the
\* header of the bindings section
C24_HeaderAlwaysPresent ==
  soul_ops # <<>> =>
    /\ Contains(soul.raw_content, <<"#","#"," ","I","d","e","n","t","i","t","y"," ","B","i","n","d","i","n","g","s">>)
    /\ IsSome(soul_file)
    /\ Contains(Unwrap(soul_file), <<"#","#"," ","I","d","e","n","t","i","t","y"," ","B","i","n","d","i","n","g","s">>)

(***************************************************************************)
(* Properties of the diary and of the sections of the Soul                 *)
(***************************************************************************)
\* new is old with one block of n elements put in at some place
InsertedInto(old, new, n) ==
  /\ Len(new) = Len(old) + n
  /\ \E i \in 0..Len(old) :
       /\ SubSeq(new, 1, i) = SubSeq(old, 1, i)
       /\ SubSeq(new, i + n + 1, Len(new)) = SubSeq(old, i + 1, Len(old))

\* every entry of the diary section of a Soul
AllEntries(s) == DiaryLines(lines(s.raw_content), 1, FALSE, <<>>)

\* the step is a mutation of a loaded Soul
Mutation == soul_ops # <<>> /\ soul_ops' # soul_ops

\* C32: a mutation changes its own section only. An add_binding of a pair
\* not yet bound adds one binding and leaves the diary entries as they
\* were; an append to the diary adds one entry and leaves the bindings as
\* they were; both leave the text they found in place, verbatim, and add
\* one line to it (and the header of the section when it was absent)
C32_OwnSectionOnly ==
  [][Mutation =>
      LET op == soul_ops'[Len(soul_ops')]
          diary == op.op \in {"append_diary_entry", "create_diary_entry"}
          bound == \E i \in DOMAIN soul.bindings :
                     soul.bindings[i].provider = op.provider /\ soul.bindings[i].id = op.id
          header == IF diary THEN <<"#","#"," ","D","i","a","r","y">> ELSE <<"#","#"," ","I","d","e","n","t","i","t","y"," ","B","i","n","d","i","n","g","s">>
      IN  IF ~diary /\ bound
            THEN soul' = soul /\ soul_file' = soul_file
            ELSE /\ InsertedInto(soul.raw_content, soul'.raw_content,
                                 Len(soul'.raw_content) - Len(soul.raw_content))
                 /\ soul_file' = Some(soul'.raw_content)
                 /\ IF diary
                      THEN /\ soul'.bindings = soul.bindings
                           /\ InsertedInto(AllEntries(soul), AllEntries(soul'), 1)
                      ELSE /\ AllEntries(soul') = AllEntries(soul)
                           /\ InsertedInto(soul.bindings, soul'.bindings, 1)
                 /\ Contains(soul.raw_content, header)
                      => Len(lines(soul'.raw_content)) = Len(lines(soul.raw_content)) + 1]_vars

\* the texts appended to the diary so far, oldest first
Appended ==
  LET at == SelectSeq([i \in DOMAIN soul_ops |-> i],
                      LAMBDA i : soul_ops[i].op \in {"append_diary_entry", "create_diary_entry"})
  IN  [k \in DOMAIN at |-> trim(soul_ops[at[k]].id)]

\* C33: get_diary_entries(limit) answers with the limit entries appended
\* last, all of them when there are fewer, in whatever order; checked while
\* every text appended is a single line
C33_MostRecentEntries ==
  [][(diary_read' # diary_read /\ \A k \in DOMAIN Appended : ~Contains(Appended[k], <<"\n">>)) =>
      LET n == IF Len(Appended) < diary_read'.limit THEN Len(Appended) ELSE diary_read'.limit
          newest == SubSeq(Appended, Len(Appended) - n + 1, Len(Appended))
          read == diary_read'.entries
      IN  /\ Len(read) = n
          /\ \A x \in {newest[k] : k \in DOMAIN newest} :
               Cardinality({k \in DOMAIN read : read[k].content = x})
                 = Cardinality({k \in DOMAIN newest : newest[k] = x})]_vars

(***************************************************************************)
(* Properties of the MCP client                                            *)
(***************************************************************************)
\* C38: a request returns the result, or the error, of the response that
\* carries the id it sent, whatever else the server writes in between and
\* whatever other requests run on the client
C38_ResponseMatchesRequest ==
  \A c \in Requests :
    rpc[c].pc = "returned" =>
      \/ /\ Response(rpc[c].id) \in {sent[i] : i \in DOMAIN sent}
         /\ rpc[c].ret = Some([ok |-> TRUE, value |-> <<"result-of", rpc[c].id>>])
      \/ /\ ErrorResponse(rpc[c].id) \in {sent[i] : i \in DOMAIN sent}
         /\ rpc[c].ret = Some([ok |-> FALSE, value |-> <<"error-of", rpc[c].id>>])

(***************************************************************************)
(* Properties of the OIDC state store                                      *)
(***************************************************************************)
\* the calls that generated the token of call i before it
GeneratedBefore(i) ==
  {g \in 1..(i - 1) : oidc_calls[g].op = "generate" /\ oidc_calls[g].token = oidc_calls[i].token}

\* C35: a validate returns a provider only for a token that a generate
\* returned, that provider, less than the time to live after the generate,
\* and only if no validate of the token returned a provider before; a token
\* never generated, an expired one and one already validated yield none
C35_StateTokensSingleUse ==
  \A i \in DOMAIN oidc_calls :
    (oidc_calls[i].op = "validate" /\ IsSome(oidc_calls[i].result)) =>
      /\ \E g \in GeneratedBefore(i) :
           /\ Unwrap(oidc_calls[i].result) = oidc_calls[g].provider
           /\ oidc_calls[i].at - oidc_calls[g].at < ttl
      /\ \A j \in 1..(i - 1) :
           (oidc_calls[j].op = "validate" /\ oidc_calls[j].token = oidc_calls[i].token)
             => oidc_calls[j].result = None

\* a token was validated to its provider within the time to live and a
\* second validation of it returned none
C35_Witness ==
  \E a, c \in DOMAIN oidc_calls :
    /\ a < c /\ oidc_calls[a].op = "validate" /\ oidc_calls[c].op = "validate"
    /\ oidc_calls[a].token = oidc_calls[c].token
    /\ IsSome(oidc_calls[a].result)
    /\ oidc_calls[c].result = None
    /\ oidc_calls[c].at - oidc_calls[1].at < ttl

(***************************************************************************)
(* Properties of the roles                                                 *)
(***************************************************************************)
Resolved == IsSome(role_call.role)

\* the highest level among the bindings of the Soul, Low when it has none
HighestTrust ==
  IF \E i \in DOMAIN soul.bindings : soul.bindings[i].trust_level = "High" THEN "High"
  ELSE IF \E i \in DOMAIN soul.bindings : soul.bindings[i].trust_level = "Medium" THEN "Medium"
  ELSE "Low"

AgeBelow(n) == IsSome(role_call.config.user_age) /\ Unwrap(role_call.config.user_age) < n

\* C25: the role is the explicit override if one is set; otherwise Child
\* below the age of 16; otherwise, by the highest trust level T of the
\* bindings, Root for High and local, Adult for High and remote, Adult for
\* Medium, Senior for Low from the age of 65, and Child in every other case
C25_RoleDerivation ==
  Resolved =>
    Unwrap(role_call.role) =
      (IF IsSome(role_call.config.override_role) THEN Unwrap(role_call.config.override_role)
       ELSE IF AgeBelow(16) THEN "Child"
       ELSE IF HighestTrust = "High" /\ role_call.config.is_local THEN "Root"
       ELSE IF HighestTrust = "High" THEN "Adult"
       ELSE IF HighestTrust = "Medium" THEN "Adult"
       ELSE IF IsSome(role_call.config.user_age) /\ ~AgeBelow(65) THEN "Senior"
       ELSE "Child")

\* a Soul of a Low and a Medium binding resolved for a remote user of 65
C25_Witness ==
  /\ Resolved
  /\ Len(soul.bindings) = 2 /\ HighestTrust = "Medium"
  /\ role_call.config = RoleConfig(None, FALSE, Some(65))
  /\ role_call.role = Some("Adult")

SingleHigh == Len(soul.bindings) = 1 /\ soul.bindings[1].trust_level = "High"

NoCapability ==
  Unwrap(role_call.capabilities) =
    Capabilities(FALSE, FALSE, FALSE, FALSE, FALSE, FALSE, FALSE, FALSE)

\* C26 as stated: a Soul with a single High binding gets shell and MCP
\* configuration and no voice-first in a local session, shell without MCP
\* configuration in a remote one, and every Soul resolved with an age
\* below 16 gets Child with every capability false
C26_CapabilitiesFollowRole ==
  Resolved =>
    /\ (SingleHigh /\ role_call.config.is_local) =>
         /\ Unwrap(role_call.capabilities).can_use_shell
         /\ Unwrap(role_call.capabilities).can_configure_mcp
         /\ ~Unwrap(role_call.capabilities).voice_first
    /\ (SingleHigh /\ ~role_call.config.is_local) =>
         /\ Unwrap(role_call.capabilities).can_use_shell
         /\ ~Unwrap(role_call.capabilities).can_configure_mcp
    /\ AgeBelow(16) => (role_call.role = Some("Child") /\ NoCapability)

\* C26 amended: the same, for resolutions without an explicit override,
\* the two cases of the single High binding not being below the age of 16
C26_CapabilitiesWithoutOverride ==
  (Resolved /\ role_call.config.override_role = None) =>
    /\ (SingleHigh /\ role_call.config.is_local /\ ~AgeBelow(16)) =>
         /\ role_call.role = Some("Root")
         /\ Unwrap(role_call.capabilities).can_use_shell
         /\ Unwrap(role_call.capabilities).can_configure_mcp
         /\ ~Unwrap(role_call.capabilities).voice_first
    /\ (SingleHigh /\ ~role_call.config.is_local /\ ~AgeBelow(16)) =>
         /\ role_call.role = Some("Adult")
         /\ Unwrap(role_call.capabilities).can_use_shell
         /\ ~Unwrap(role_call.capabilities).can_configure_mcp
    /\ AgeBelow(16) => (role_call.role = Some("Child") /\ NoCapability)

\* a local user of 10 with a High binding and no override, resolved
C26_Witness ==
  /\ Resolved
  /\ SingleHigh
  /\ role_call.config = RoleConfig(None, TRUE, Some(10))
  /\ NoCapability

(***************************************************************************)
(* Specifications                                                          *)
(***************************************************************************)
MemIdle ==
  /\ inner = <<>> /\ vault_dir = <<>> /\ meta_dir = <<>>
  /\ uuids = 0 /\ stores = 0 /\ last = NoCall
  /\ scoped = NoScopedOp

GateIdle ==
  /\ policy = CHOOSE p \in Policies : TRUE
  /\ confirm_gate = FALSE
  /\ wrap = <<>> /\ req = <<>> /\ pending = <<>> /\ notified = <<>> /\ inbox = <<>>
  /\ req_ids = 0 /\ resolves = 0 /\ granted = <<>> /\ answer = NoAnswer

IdIdle == RlNew(0) /\ SoulIdle /\ role_call = NoRole /\ GwIdle

InitMemory ==
  MemInit /\ GateIdle /\ GkIdle /\ scoped = NoScopedOp /\ VaultIdle /\ IdIdle

InitStack == MemInit /\ GateIdle /\ GkIdle /\ StackInit /\ VaultIdle /\ IdIdle

InitVault == MemIdle /\ GateIdle /\ GkIdle /\ audit = <<>> /\ VaultIdle /\ IdIdle

InitFamily ==
  /\ inner = <<>> /\ scoped = NoScopedOp
  /\ GateIdle /\ GkIdle /\ audit = <<>> /\ VaultIdle /\ IdIdle
  /\ vault_dir = <<>> /\ meta_dir = <<>> /\ uuids = 0 /\ stores = 0 /\ last = NoCall

\* a family that grows by the endpoint, and its members' scoped wrappers
SpecFamily ==
  /\ InitFamily
  /\ [][FamilyNext]_vars

InitScoped ==
  /\ ScopedInit /\ GateIdle /\ GkIdle /\ audit = <<>> /\ VaultIdle /\ IdIdle
  /\ vault_dir = <<>> /\ meta_dir = <<>> /\ uuids = 0 /\ stores = 0 /\ last = NoCall

InitGate == GateInit /\ MemIdle /\ GkIdle /\ audit = <<>> /\ VaultIdle /\ IdIdle

InitGatekeeper ==
  /\ GkInit /\ MemIdle /\ audit = <<>> /\ VaultIdle /\ IdIdle
  /\ \E n \in 0..MaxCeiling :
       policy = [(CHOOSE p \in Policies : TRUE) EXCEPT !.max_actions_per_hour = n]
  /\ confirm_gate = FALSE
  /\ wrap = <<>> /\ req = <<>> /\ pending = <<>> /\ notified = <<>> /\ inbox = <<>>
  /\ req_ids = 0 /\ resolves = 0 /\ granted = <<>> /\ answer = NoAnswer

InitLimiter ==
  /\ \E limit \in 0..MaxLimit : RlNew(limit)
  /\ SoulIdle /\ role_call = NoRole /\ GwIdle
  /\ MemIdle /\ GateIdle /\ GkIdle /\ audit = <<>> /\ VaultIdle

InitSoul ==
  /\ SoulInit /\ RlNew(0) /\ role_call = NoRole /\ GwIdle
  /\ MemIdle /\ GateIdle /\ GkIdle /\ audit = <<>> /\ VaultIdle

InitRoles ==
  /\ RolesInit /\ RlNew(0) /\ GwIdle
  /\ MemIdle /\ GateIdle /\ GkIdle /\ audit = <<>> /\ VaultIdle

\* a gate attached to the wrapper under a policy that lets the tools
\* through to their confirmation
InitTrust ==
  /\ policy \in TrustPolicies
  /\ confirm_gate = FALSE
  /\ wrap = [c \in Calls |-> [tool |-> <<>>, pc |-> "idle", steps |-> <<>>, verdict |-> "none"]]
  /\ req = [c \in Calls |-> NoRequest]
  /\ pending = <<>> /\ notified = <<>> /\ inbox = <<>>
  /\ req_ids = 0 /\ resolves = 0
  /\ granted = [id \in ResolveIds |-> 0]
  /\ answer = NoAnswer
  /\ MemIdle /\ GkIdle /\ audit = <<>> /\ VaultIdle /\ IdIdle

InitNotify ==
  /\ GateInit /\ confirm_gate
  /\ policy.current_trust = "High" /\ policy.allowed_skills = {}
  /\ MemIdle /\ GkIdle /\ audit = <<>> /\ VaultIdle /\ IdIdle

InitAudit ==
  /\ MemInit /\ GkInit /\ VaultIdle /\ IdIdle /\ scoped = NoScopedOp
  /\ \E n \in 0..MaxCeiling :
       policy = [(CHOOSE p \in Policies : TRUE) EXCEPT !.max_actions_per_hour = n]
  /\ confirm_gate = FALSE
  /\ wrap = <<>> /\ req = <<>> /\ pending = <<>> /\ notified = <<>> /\ inbox = <<>>
  /\ req_ids = 0 /\ resolves = 0 /\ granted = <<>> /\ answer = NoAnswer

\* the Sovereign wrapper over an empty in-memory backend
SpecMemory ==
  /\ InitMemory
  /\ [][Store]_vars

\* tool invocations through the wrapper, their confirmation requests and
\* the resolvers; a request that is not dropped runs on to its return
SpecGate ==
  /\ InitGate
  /\ [][GateNext]_vars
  /\ \A c \in Calls : /\ WF_vars(RequestPublish(c))
                       /\ WF_vars(RequestWake(c))
                       /\ WF_vars(RequestCleanup(c))

\* tool invocations through a wrapper under every setting of the thresholds
SpecTrust ==
  /\ InitTrust
  /\ [][TrustNext]_vars

\* the confirmation requests of the gate, the receivers that subscribe to
\* its notifications and the resolvers
SpecNotify ==
  /\ InitNotify
  /\ [][NotifyNext]_vars

\* encryptions, decryptions and alterations of the envelopes of one vault
SpecVault ==
  /\ InitVault
  /\ [][VaultNext]_vars

\* stores of one family member through the stack create_memory builds
SpecStack ==
  /\ InitStack
  /\ [][StackStore]_vars

\* the wrappers of the family members over one inner backend
SpecScoped ==
  /\ InitScoped
  /\ [][ScopedNext]_vars

\* one Soul over SOUL.md: loaded, then bound and written to
InitClient ==
  /\ ClientInit /\ OidcNew(0) /\ family = <<>>
  /\ RlNew(0) /\ SoulIdle /\ role_call = NoRole
  /\ MemIdle /\ GateIdle /\ GkIdle /\ audit = <<>> /\ VaultIdle

\* concurrent requests of one MCP client to a server that answers in any
\* order and writes notifications
SpecClient ==
  /\ InitClient
  /\ [][ClientNext]_vars

InitOidc ==
  /\ \E t \in 0..MaxTtl : OidcNew(t) /\ ClientIdle /\ family = <<>>
  /\ RlNew(0) /\ SoulIdle /\ role_call = NoRole
  /\ MemIdle /\ GateIdle /\ GkIdle /\ audit = <<>> /\ VaultIdle

\* generate and validate calls on one OIDC state store as time passes
SpecOidc ==
  /\ InitOidc
  /\ [][OidcNext]_vars

SpecSoul ==
  /\ InitSoul
  /\ [][SoulNext]_vars

\* the Soul with its diary, written through the handler and read back
SpecDiary ==
  /\ InitSoul
  /\ [][DiaryNext]_vars

\* role resolutions from Souls of every combination of trust levels
SpecRoles ==
  /\ InitRoles
  /\ [][ResolveRole]_vars

\* allow calls on one rate limiter as time passes
SpecLimiter ==
  /\ InitLimiter
  /\ [][RlNext]_vars

\* a Sovereign wrapper and a gatekeeper that write to one audit log
SpecAudit ==
  /\ InitAudit
  /\ [][AuditNext]_vars

\* gate_request calls on one gatekeeper as time passes
SpecGatekeeper ==
  /\ InitGatekeeper
  /\ [][GkNext]_vars
====
